---- MODULE Spec2Model ----
(***************************************************************************)
(* A model of the AVR simulator core: the instruction decoder              *)
(* (inst/binary/mod.rs), the register file (regs.rs), the status register  *)
(* (sreg.rs) and the execution core (core.rs).  One Tick action is one     *)
(* call of Core::tick.                                                     *)
(***************************************************************************)
EXTENDS Integers, Sequences, FiniteSets, TLC

----------------------------------------------------------------------------
(* Bounds of the model.                                                    *)

\* Size in bytes of the data space (Chip::memory_size); it has to hold the
\* clock bytes 0x105..0x108 that every tick touches.
MemorySize == 268

\* Size in bytes of the program space (Chip::flash_size).
FlashSize == 20

----------------------------------------------------------------------------
(* Fixed-width integer helpers.                                            *)

RECURSIVE BitAnd(_, _)
BitAnd(a, b) ==
    IF a = 0 \/ b = 0 THEN 0
    ELSE (a % 2) * (b % 2) + 2 * BitAnd(a \div 2, b \div 2)

RECURSIVE BitOr(_, _)
BitOr(a, b) ==
    IF a = 0 THEN b
    ELSE IF b = 0 THEN a
    ELSE (IF a % 2 = 1 \/ b % 2 = 1 THEN 1 ELSE 0) + 2 * BitOr(a \div 2, b \div 2)

RECURSIVE BitXor(_, _)
BitXor(a, b) ==
    IF a = 0 THEN b
    ELSE IF b = 0 THEN a
    ELSE ((a + b) % 2) + 2 * BitXor(a \div 2, b \div 2)

Shr(a, n) == a \div (2 ^ n)

\* A left shift in a w-bit unsigned type: bits shifted out are lost.
Shl(a, n, w) == (a * (2 ^ n)) % (2 ^ w)

\* `x as u8`, `x as u16` of a mathematical integer.
AsU8(x) == x % 256
AsU16(x) == x % 65536

\* `x as i16` / `x as i8` of an unsigned value of the same width.
AsI16(x) == IF x % 65536 >= 32768 THEN (x % 65536) - 65536 ELSE x % 65536
AsI8(x) == IF x % 256 >= 128 THEN (x % 256) - 256 ELSE x % 256

Abs(x) == IF x < 0 THEN -x ELSE x

\* A u32 value is the pair <<high 16 bits, low 16 bits>>, so that every
\* 32-bit pattern and every wrapped program counter has a representation.
U32(n) == <<(n \div 65536) % 65536, n % 65536>>

\* p + n in u32 (wrapping), for a small integer n of either sign.
U32Add(p, n) ==
    LET s == p[2] + n
    IN  <<(p[1] + (s \div 65536)) % 65536, s % 65536>>

\* (bits & mask) >> lo for the mask of the bits hi..lo of a u32, where the
\* field is at most 31 bits wide.
Field32(bits, hi, lo) ==
    IF lo >= 16 THEN Shr(bits[1], lo - 16) % (2 ^ (hi - lo + 1))
    ELSE IF hi < 16 THEN Shr(bits[2], lo) % (2 ^ (hi - lo + 1))
    ELSE Shr(bits[2], lo) + (bits[1] % (2 ^ (hi - 15))) * (2 ^ (16 - lo))

----------------------------------------------------------------------------
(* Instructions.                                                           *)

\* An Instruction value: the variant name and its operands in the order of
\* the variant's fields; v holds a non-numeric operand (the addressing
\* variant of Ld/St, the post-increment flag of Lpm).
Inst(op, x, y, z, v) == [op |-> op, x |-> x, y |-> y, z |-> z, v |-> v]

\* Option::None of the matchers.
None == Inst("None", 0, 0, 0, "")

IsSome(i) == i.op # "None"

\* a.or_else(|| b)
OrElse(a, b) == IF IsSome(a) THEN a ELSE b

\* Instruction::size: the encoded length in bytes.
Size(i) == IF i.op \in {"Jmp", "Call", "Lds", "Sts"} THEN 4 ELSE 2

\* math::sign_extend applied to the 7-bit branch field shifted left by one:
\* the field read as a 7-bit two's-complement number, times two.
SignExtend7Shl1(kbits) == IF kbits >= 64 THEN 2 * (kbits - 128) ELSE 2 * kbits

----------------------------------------------------------------------------
(* The decoder, inst/binary/mod.rs.                                        *)

try_read_fixed(bits) ==
    CASE bits = 0 -> Inst("Nop", 0, 0, 0, "")
      [] bits = \h9508 -> Inst("Ret", 0, 0, 0, "")
      [] bits = \h9518 -> Inst("Reti", 0, 0, 0, "")
      [] bits = \h95C8 -> Inst("Lpm", 0, 30, 0, "false")
      [] bits = \h9478 -> Inst("Sei", 0, 0, 0, "")
      [] bits = \h94F8 -> Inst("Cli", 0, 0, 0, "")
      [] OTHER -> None

try_read_rd(bits) ==
    LET opcode == BitOr(Shr(BitAnd(bits, \b1111111000000000), 5),
                        BitAnd(bits, \b0000000000001111))
        rd == Shr(BitAnd(bits, \b0000000111110000), 4)
    IN  CASE opcode = \b10010100011 -> Inst("Inc", rd, 0, 0, "")
          [] opcode = \b10010101010 -> Inst("Dec", rd, 0, 0, "")
          [] opcode = \b10010100000 -> Inst("Com", rd, 0, 0, "")
          [] opcode = \b10010100001 -> Inst("Neg", rd, 0, 0, "")
          [] opcode = \b10010011111 -> Inst("Push", rd, 0, 0, "")
          [] opcode = \b10010001111 -> Inst("Pop", rd, 0, 0, "")
          [] opcode = \b10010100010 -> Inst("Swap", rd, 0, 0, "")
          [] OTHER -> None

\* An rdk matcher that numbers the registers from r0.
try_read_rdk_from_r0(bits) ==
    LET opcode == Shr(BitAnd(bits, \b1111000000000000), 12)
        rd == Shr(BitAnd(bits, \b0000000011110000), 4)
        k == AsU8(BitOr(Shr(BitAnd(bits, \b0000111100000000), 4),
                        BitAnd(bits, \b0000000000001111)))
    IN  CASE opcode = \b0101 -> Inst("Subi", rd, k, 0, "")
          [] opcode = \b0100 -> Inst("Sbci", rd, k, 0, "")
          [] opcode = \b0111 -> Inst("Andi", rd, k, 0, "")
          [] opcode = \b0110 -> Inst("Ori", rd, k, 0, "")
          [] opcode = \b0011 -> Inst("Cpi", rd, k, 0, "")
          [] opcode = \b1110 -> Inst("Ldi", rd, k, 0, "")
          [] OTHER -> None

try_read_rdk(bits) ==
    LET opcode == Shr(BitAnd(bits, \b1111000000000000), 12)
        rd == Shr(BitAnd(bits, \b0000000011110000), 4) + 16
        k == AsU8(BitOr(Shr(BitAnd(bits, \b0000111100000000), 4),
                        BitAnd(bits, \b0000000000001111)))
    IN  CASE opcode = \b0101 -> Inst("Subi", rd, k, 0, "")
          [] opcode = \b0100 -> Inst("Sbci", rd, k, 0, "")
          [] opcode = \b0111 -> Inst("Andi", rd, k, 0, "")
          [] opcode = \b0110 -> Inst("Ori", rd, k, 0, "")
          [] opcode = \b0011 -> Inst("Cpi", rd, k, 0, "")
          [] opcode = \b1110 -> Inst("Ldi", rd, k, 0, "")
          [] OTHER -> None

try_read_rdrr(bits) ==
    LET opcode == Shr(BitAnd(bits, \b1111110000000000), 10)
        rd == Shr(BitAnd(bits, \b0000000111110000), 4)
        rr == BitOr(Shr(BitAnd(bits, \b0000001000000000), 5),
                    BitAnd(bits, \b0000000000001111))
    IN  CASE opcode = \b000011 -> Inst("Add", rd, rr, 0, "")
          [] opcode = \b000111 -> Inst("Adc", rd, rr, 0, "")
          [] opcode = \b000110 -> Inst("Sub", rd, rr, 0, "")
          [] opcode = \b000010 -> Inst("Sbc", rd, rr, 0, "")
          [] opcode = \b100111 -> Inst("Mul", rd, rr, 0, "")
          [] opcode = \b001000 -> Inst("And", rd, rr, 0, "")
          [] opcode = \b001010 -> Inst("Or", rd, rr, 0, "")
          [] opcode = \b001001 -> Inst("Eor", rd, rr, 0, "")
          [] opcode = \b000100 -> Inst("Cpse", rd, rr, 0, "")
          [] opcode = \b000101 -> Inst("Cp", rd, rr, 0, "")
          [] opcode = \b000001 -> Inst("Cpc", rd, rr, 0, "")
          [] opcode = \b001011 -> Inst("Mov", rd, rr, 0, "")
          [] OTHER -> None

try_read_rda(bits) ==
    LET opcode == Shr(BitAnd(bits, \hf000), 12)
        subopcode == Shr(BitAnd(bits, \b100000000000), 11)
        reg == Shr(BitAnd(\b111110000, bits), 4)
        a == BitOr(Shr(BitAnd(\b11000000000, bits), 5), BitAnd(\b1111, bits))
    IN  IF opcode # \b1011 THEN None
        ELSE IF subopcode = 0 THEN Inst("In", reg, a, 0, "")
        ELSE Inst("Out", a, reg, 0, "")

try_read_io_ab(bits) ==
    LET opcode == Shr(BitAnd(bits, \hff00), 8)
        a == Shr(BitAnd(bits, \b0000000011111000), 3)
        b == BitAnd(bits, \b111)
    IN  CASE opcode = \b10011010 -> Inst("Sbi", a, b, 0, "")
          [] opcode = \b10011011 -> Inst("Sbis", a, b, 0, "")
          [] opcode = \b10011000 -> Inst("Cbi", a, b, 0, "")
          [] OTHER -> None

try_read_sbrs(bits) ==
    LET opcode == BitOr(Shr(BitAnd(bits, \hfe00), 8), Shr(BitAnd(bits, \h0008), 3))
        r == Shr(BitAnd(bits, \h01f0), 4)
        b == BitAnd(bits, \h0007)
    IN  IF opcode = \b11111110 THEN Inst("Sbrs", r, b, 0, "") ELSE None

try_read_rdz(bits) ==
    LET opcode == BitOr(BitAnd(Shr(bits, 5), \b11111110000), BitAnd(bits, \b1111))
        register == BitAnd(Shr(bits, 4), \b11111)
    IN  CASE opcode = \b10010000100 -> Inst("Lpm", register, 30, 0, "false")
          [] opcode = \b10010000101 -> Inst("Lpm", register, 30, 0, "true")
          [] OTHER -> None

try_read_k16(bits) ==
    LET opcode == Shr(BitAnd(bits, \hf000), 12)
        k0 == BitAnd(bits, \h0fff)
        k1 == AsI16(IF BitAnd(k0, \h0800) # 0 THEN BitOr(k0, \hf000) ELSE k0)
        k == AsI16(Shl(AsU16(k1), 1, 16))
    IN  CASE opcode = \b1100 -> Inst("Rjmp", k, 0, 0, "")
          [] opcode = \b1101 -> Inst("Rcall", k, 0, 0, "")
          [] OTHER -> None

try_read_k32(bits) ==
    LET opcode == Field32(bits, 31, 25)          \* (bits & 0xfe000000) >> 25
        subopcode == Field32(bits, 19, 17)       \* (bits & 0xe0000) >> 17
        \* `k << 1` of a u32 below 2^17: no bit is shifted out
        k == 2 * BitOr(Field32(bits, 24, 20),    \* (bits & 0x1f00000) >> 20
                       Field32(bits, 16, 0))     \* bits & 0x1ffff
    IN  IF opcode # \b1001010 THEN None
        ELSE CASE subopcode = \b110 -> Inst("Jmp", k, 0, 0, "")
               [] subopcode = \b111 -> Inst("Call", k, 0, 0, "")
               [] OTHER -> None

try_read_lds_sts(bits) ==
    LET immediate == AsU16(Field32(bits, 15, 0)) \* (bits & 0xFFFF) as u16
        upper_half == AsU16(Field32(bits, 31, 16)) \* (bits >> 16) as u16
        opcode == BitOr(BitAnd(Shr(upper_half, 5), \b11111110000),
                        BitAnd(upper_half, \b1111))
        register == BitAnd(Shr(upper_half, 4), \b11111)
    IN  CASE opcode = \b10010000000 -> Inst("Lds", register, immediate, 0, "")
          [] opcode = \b10010010000 -> Inst("Sts", register, immediate, 0, "")
          [] OTHER -> None

try_read_st_ld(bits) ==
    LET opcode == Shr(BitAnd(bits, \b1111111000000000), 9)
        subop == BitAnd(bits, \h000f)
        reg == Shr(BitAnd(bits, \h1f0), 4)
    IN  CASE opcode = \b1001001 /\ subop = \b1100 -> Inst("St", 26, reg, 0, "Normal")
          [] opcode = \b1001001 /\ subop = \b1101 -> Inst("St", 26, reg, 0, "Postincrement")
          [] opcode = \b1001001 /\ subop = \b1110 -> Inst("St", 26, reg, 0, "Predecrement")
          [] opcode = \b1000001 /\ subop = \b1000 -> Inst("St", 28, reg, 0, "Normal")
          [] opcode = \b1001001 /\ subop = \b1001 -> Inst("St", 28, reg, 0, "Postincrement")
          [] opcode = \b1001001 /\ subop = \b1010 -> Inst("St", 28, reg, 0, "Predecrement")
          [] opcode = \b1000001 /\ subop = \b0000 -> Inst("St", 30, reg, 0, "Normal")
          [] opcode = \b1001001 /\ subop = \b0001 -> Inst("St", 30, reg, 0, "Postincrement")
          [] opcode = \b1001001 /\ subop = \b0010 -> Inst("St", 30, reg, 0, "Predecrement")
          [] opcode = \b1001000 /\ subop = \b1100 -> Inst("Ld", reg, 26, 0, "Normal")
          [] opcode = \b1001000 /\ subop = \b1101 -> Inst("Ld", reg, 26, 0, "Postincrement")
          [] opcode = \b1001000 /\ subop = \b1110 -> Inst("Ld", reg, 26, 0, "Predecrement")
          [] opcode = \b1000000 /\ subop = \b1000 -> Inst("Ld", reg, 28, 0, "Normal")
          [] opcode = \b1001000 /\ subop = \b1001 -> Inst("Ld", reg, 28, 0, "Postincrement")
          [] opcode = \b1001000 /\ subop = \b1010 -> Inst("Ld", reg, 28, 0, "Predecrement")
          [] opcode = \b1000000 /\ subop = \b0000 -> Inst("Ld", reg, 30, 0, "Normal")
          [] opcode = \b1001000 /\ subop = \b0001 -> Inst("Ld", reg, 30, 0, "Postincrement")
          [] opcode = \b1001000 /\ subop = \b0010 -> Inst("Ld", reg, 30, 0, "Predecrement")
          [] OTHER -> None

try_read_std_ldd(bits) ==
    LET opcode == Shr(BitAnd(bits, \b1101000000000000), 12)
        f == Shr(BitAnd(bits, \b0000001000000000), 9)
        p == Shr(BitAnd(bits, \b1000), 3)
        q == BitOr(BitOr(Shr(BitAnd(bits, \b0010000000000000), 7),
                         Shr(BitAnd(bits, \b0000110000000000), 6)),
                   BitAnd(bits, \b0000000000000111))
        reg == Shr(BitAnd(bits, \b111110000), 4)
        imm == AsU8(q)
        ptrreg == IF p = 0 THEN 30 ELSE 28
    IN  IF opcode # \b1000 THEN None
        ELSE IF f = 0 THEN Inst("Ldd", reg, ptrreg, imm, "")
        ELSE Inst("Std", ptrreg, imm, reg, "")

try_read_movw(bits) ==
    LET opcode == Shr(BitAnd(bits, \hff00), 8)
        rd == Shl(Shr(BitAnd(bits, \h00f0), 4), 1, 16)
        rr == Shl(BitAnd(bits, \h000f), 1, 16)
    IN  IF opcode # \b00000001 THEN None
        ELSE Inst("Movw", AsU8(rd), AsU8(rr), 0, "")

try_read_relcondbr(bits) ==
    LET opcode == BitAnd(bits, \b1111110000000111)
        k_bits == Shr(BitAnd(\b0000001111111000, bits), 3)
        k == SignExtend7Shl1(k_bits)
    IN  CASE opcode = \b1111010000000001 -> Inst("Brne", k, 0, 0, "")
          [] opcode = \b1111000000000001 -> Inst("Breq", k, 0, 0, "")
          [] opcode = \b1111000000000000 -> Inst("Brcs", k, 0, 0, "")
          [] opcode = \b1111010000000000 -> Inst("Brcc", k, 0, 0, "")
          [] opcode = \b1111010000000100 -> Inst("Brge", k, 0, 0, "")
          [] opcode = \b1111000000000101 -> Inst("Brhs", k, 0, 0, "")
          [] opcode = \b1111010000000101 -> Inst("Brhc", k, 0, 0, "")
          [] opcode = \b1111000000000111 -> Inst("Brie", k, 0, 0, "")
          [] opcode = \b1111010000000111 -> Inst("Brid", k, 0, 0, "")
          [] opcode = \b1111000000000100 -> Inst("Brlt", k, 0, 0, "")
          [] opcode = \b1111000000000010 -> Inst("Brmi", k, 0, 0, "")
          [] opcode = \b1111010000000010 -> Inst("Brpl", k, 0, 0, "")
          [] opcode = \b1111000000000110 -> Inst("Brts", k, 0, 0, "")
          [] opcode = \b1111010000000110 -> Inst("Brtc", k, 0, 0, "")
          [] opcode = \b1111000000000011 -> Inst("Brvs", k, 0, 0, "")
          [] opcode = \b1111010000000011 -> Inst("Brvc", k, 0, 0, "")
          [] OTHER -> None

try_read_adiw(bits) ==
    LET opcode == Shr(bits, 8)
        k == AsU8(BitOr(BitAnd(Shr(bits, 6), \b11), BitAnd(bits, \b1111)))
        d == AsU8(BitAnd(Shr(bits, 3), \b110)) + 24
    IN  CASE opcode = \b10010110 -> Inst("Adiw", d, k, 0, "")
          [] opcode = \b10010111 -> Inst("Sbiw", d, k, 0, "")
          [] OTHER -> None

try_read16(bits) ==
    OrElse(try_read_fixed(bits),
    OrElse(try_read_rd(bits),
    OrElse(try_read_rdk(bits),
    OrElse(try_read_rdrr(bits),
    OrElse(try_read_rda(bits),
    OrElse(try_read_io_ab(bits),
    OrElse(try_read_rdz(bits),
    OrElse(try_read_k16(bits),
    OrElse(try_read_st_ld(bits),
    OrElse(try_read_std_ldd(bits),
    OrElse(try_read_movw(bits),
    OrElse(try_read_relcondbr(bits),
    OrElse(try_read_adiw(bits),
           try_read_sbrs(bits))))))))))))))

try_read32(bits) == OrElse(try_read_k32(bits), try_read_lds_sts(bits))

----------------------------------------------------------------------------
(* The state of a Core and of the host that drives it.                     *)

VARIABLES
    pc,                         \* Core::pc, a u32
    registers,                  \* RegisterFile::registers: 32 GPRs, SPL, SPH
    sreg,                       \* RegisterFile::sreg, the flag byte
    memory,                     \* Core::memory, the data space
    program_space,              \* Core::program_space
    size_of_next_instruction,   \* Core::size_of_next_instruction
    outcome,                    \* what the last call of Core::tick returned
    pre,                        \* the core as it was when that call began
    scn,                        \* the set-up the host loaded before running
    overflow_checks,            \* the build: arithmetic overflow panics or wraps
    ticks,                      \* number of calls of Core::tick so far
    host,                       \* "core": the host drives the Core; "mcu": it wrapped it
    addons,                     \* Mcu::addons, in the order of attachment
    notified,                   \* the addon calls of the last Mcu::tick, in order
    mcu_outcome,                \* what the last call of Mcu::tick returned
    last_call                   \* the host's last call

vars == <<pc, registers, sreg, memory, program_space,
          size_of_next_instruction, outcome, pre, scn, overflow_checks, ticks,
          host, addons, notified, mcu_outcome, last_call>>

\* The fields of the Core as one value, the `self` of the handlers.
Core == [pc |-> pc, registers |-> registers, sreg |-> sreg, memory |-> memory,
         program_space |-> program_space,
         size_of_next_instruction |-> size_of_next_instruction]

----------------------------------------------------------------------------
(* Results.                                                                *)

Error(kind, a, b) == [kind |-> kind, a |-> a, b |-> b]
NoError == Error("", 0, 0)
UnknownInstruction(bits) == Error("UnknownInstruction", bits[1], bits[2])
SegmentationFault(address) == Error("SegmentationFault", address, 0)
RegisterDoesNotExist(addr) == Error("RegisterDoesNotExist", addr, 0)
RegisterPairOdd(addr) == Error("RegisterPairOdd", addr, 0)
StackOverflow == Error("StackOverflow", 0, 0)

\* A Result<T, Error> together with the core as the call left it; a panic
\* (unwrap of None, failed assertion, checked overflow) is the third outcome.
Ok(c, val) == [tag |-> "Ok", c |-> c, val |-> val, err |-> NoError]
Err(c, e) == [tag |-> "Err", c |-> c, val |-> 0, err |-> e]
Panic(c) == [tag |-> "Panic", c |-> c, val |-> 0, err |-> NoError]

IsOk(r) == r.tag = "Ok"

\* An arithmetic result in an unsigned type of w bits: out of range it
\* panics in a build with overflow checks and wraps in one without.
Checked(c, n, w) ==
    IF n >= 0 /\ n < 2 ^ w THEN Ok(c, n)
    ELSE IF overflow_checks THEN Panic(c)
    ELSE Ok(c, n % (2 ^ w))

----------------------------------------------------------------------------
(* mem::Space: a bounds-checked byte array.                                *)

get_u8(c, addr) ==
    IF addr \in DOMAIN c.memory THEN Ok(c, c.memory[addr])
    ELSE Err(c, SegmentationFault(addr))

set_u8(c, addr, val) ==
    IF addr \in DOMAIN c.memory THEN Ok([c EXCEPT !.memory[addr] = val], 0)
    ELSE Err(c, SegmentationFault(addr))

\* r?; F(r)  -- continue with F when r is Ok, return r otherwise.
Then(r, F(_)) == IF IsOk(r) THEN F(r) ELSE r

\* r.unwrap(); F(r)
Unwrap(r, F(_)) == IF IsOk(r) THEN F(r) ELSE Panic(r.c)

get_u16(c, addr) ==
    Then(get_u8(c, addr), LAMBDA lo:
    Then(get_u8(c, addr + 1), LAMBDA hi:
    Ok(c, hi.val * 256 + lo.val)))

set_u16(c, addr, val) ==
    Then(set_u8(c, addr, val % 256), LAMBDA lo:
    set_u8(lo.c, addr + 1, val \div 256))

program_get_u8(c, addr) ==
    IF addr \in DOMAIN c.program_space THEN Ok(c, c.program_space[addr])
    ELSE Err(c, SegmentationFault(addr))

----------------------------------------------------------------------------
(* regs.rs and sreg.rs.                                                    *)

SP_LO_NUM == 32
SP_HI_NUM == 33

\* Number of entries of RegisterFile::registers: r0..r31, SPL, SPH.
NumRegisters == 34

CARRY_FLAG == 1
ZERO_FLAG == 2
NEGATIVE_FLAG == 4
OVERFLOW_FLAG == 8
S_FLAG == 16
HALF_CARRY_FLAG == 32
TRANSFER_FLAG == 64
INTERRUPT_FLAG == 128

gpr(c, addr) ==
    IF addr \in DOMAIN c.registers THEN Ok(c, c.registers[addr])
    ELSE Err(c, RegisterDoesNotExist(addr))

\* `*gpr_mut(addr)? = val`
gpr_set(c, addr, val) ==
    IF addr \in DOMAIN c.registers THEN Ok([c EXCEPT !.registers[addr] = val], 0)
    ELSE Err(c, RegisterDoesNotExist(addr))

\* `*gpr_mut(addr).unwrap() = val`
gpr_set_unwrap(c, addr, val) ==
    IF addr \in DOMAIN c.registers THEN Ok([c EXCEPT !.registers[addr] = val], 0)
    ELSE Panic(c)

gpr_pair_val(c, addr) ==
    IF addr % 2 # 0 THEN Err(c, RegisterPairOdd(addr))
    ELSE Then(gpr(c, addr), LAMBDA lo:
         Then(gpr(c, addr + 1), LAMBDA hi:
         Ok(c, hi.val * 256 + lo.val)))

set_gpr_pair(c, low, val) ==
    LET val_lo == BitAnd(val, \h00ff)
        val_hi == Shr(BitAnd(val, \hff00), 8)
    IN  Then(gpr_set_unwrap(c, low, val_lo), LAMBDA lo:
        gpr_set_unwrap(lo.c, low + 1, val_hi))

\* SReg::set
sreg_set(c, flag, state) ==
    [c EXCEPT !.sreg = IF state THEN BitOr(c.sreg, flag)
                       ELSE BitAnd(c.sreg, 255 - flag)]

\* SReg::get, SReg::is_set, RegisterFile::sreg_flag
sreg_flag(c, mask) == BitAnd(c.sreg, mask) = mask

sreg_flag_set(c, mask) == [c EXCEPT !.sreg = BitOr(c.sreg, mask)]

sreg_flag_clear(c, mask) == [c EXCEPT !.sreg = BitAnd(c.sreg, 255 - mask)]

----------------------------------------------------------------------------
(* The status-flag engine of core.rs.                                      *)

update_overflow_flag(c, val) == sreg_set(c, OVERFLOW_FLAG, val > \h00ff)

update_carry_flag(c, val) == sreg_set(c, CARRY_FLAG, BitAnd(val, \b100000000) > 0)

update_half_carry_flag(c, val) == sreg_set(c, HALF_CARRY_FLAG, BitAnd(val, \b1000) > 0)

update_negative_flag(c, val) ==
    LET is_negative == BitAnd(val, \b10000000) > 0
    IN  sreg_set(sreg_set(c, NEGATIVE_FLAG, is_negative), S_FLAG, ~is_negative)

\* A zero flag that is never set.
update_zero_flag_never(c, val) == sreg_set(c, ZERO_FLAG, FALSE)

update_zero_flag(c, val) == sreg_set(c, ZERO_FLAG, val = 0)

update_sreg_arithmetic(c, val) ==
    Ok(update_zero_flag(
         update_negative_flag(
           update_half_carry_flag(
             update_carry_flag(
               update_overflow_flag(c, val), val), val), val), val), 0)

update_sreg_cp(c, rd_val, rr_val) ==
    Then(Checked(c, rd_val - rr_val, 16), LAMBDA val:
    LET is_carry == Abs(AsI16(rr_val)) > Abs(AsI16(rd_val))
    IN  Ok(sreg_set(update_zero_flag(
                      update_negative_flag(
                        update_overflow_flag(c, val.val), val.val), val.val),
                    CARRY_FLAG, is_carry), 0))

----------------------------------------------------------------------------
(* The instruction handlers of core.rs.  Each takes the core c and yields  *)
(* a result carrying the core as the handler left it.                      *)

SRAM_IO_OFFSET == 32
PTR_SIZE == 2
CLOCK_LO_ADDR == 261
CLOCK_HI_ADDR == 263

do_rd(c, rd, F(_)) ==
    Unwrap(gpr(c, rd), LAMBDA r: gpr_set_unwrap(c, rd, F(r.val)))

\* F yields the mathematical value of the closure; wrapping tells whether
\* the closure uses wrapping arithmetic.  The result's val is the u16.
do_rdrr(c, rd, rr, F(_, _), wrapping) ==
    Unwrap(gpr(c, rr), LAMBDA rrv:
    Unwrap(gpr(c, rd), LAMBDA rdv:
    Then(IF wrapping THEN Ok(c, F(rdv.val, rrv.val) % 65536)
         ELSE Checked(c, F(rdv.val, rrv.val), 16), LAMBDA v:
    Ok([c EXCEPT !.registers[rd] = AsU8(v.val)], v.val))))

do_rdi(c, rd, F(_), wrapping) ==
    Unwrap(gpr(c, rd), LAMBDA rdv:
    Then(IF wrapping THEN Ok(c, F(rdv.val) % 65536)
         ELSE Checked(c, F(rdv.val), 16), LAMBDA v:
    Ok([c EXCEPT !.registers[rd] = AsU8(v.val)], v.val)))

do_rdrr16(c, rd, rr, F(_, _)) ==
    IF ~(rd % 2 = 0 /\ rr % 2 = 0) THEN Panic(c)
    ELSE
    Unwrap(gpr(c, rr), LAMBDA rr_lo:
    Unwrap(gpr(c, rr + 1), LAMBDA rr_hi:
    Unwrap(gpr(c, rd), LAMBDA rd_lo:
    Unwrap(gpr(c, rd + 1), LAMBDA rd_hi:
    LET rr_val == BitOr(Shl(rr_hi.val, 8, 16), rr_lo.val)
        rd_val == BitOr(Shl(rd_hi.val, 8, 16), rd_lo.val)
        val == F(rd_val, rr_val)
        val_lo == BitAnd(val, \h00ff)
        val_hi == Shr(BitAnd(val, \hff00), 8)
    IN  Unwrap(gpr_set_unwrap(c, rd, AsU8(val_lo)), LAMBDA w:
        gpr_set_unwrap(w.c, rd + 1, AsU8(val_hi)))))))

\* A relative jump measured from the address of the instruction itself.
rjmp_from_fetch(c, k) == Ok([c EXCEPT !.pc = U32Add(c.pc, k - 2)], 0)

rjmp(c, k) == Ok([c EXCEPT !.pc = U32Add(c.pc, k)], 0)

\* A branch that jumps whatever the flag holds.
do_sreg_branch_always(c, k, taken) == rjmp(c, k)

do_sreg_branch(c, k, taken) == IF taken THEN rjmp(c, k) ELSE Ok(c, 0)

\* A skip over one word, whatever follows.
skip_one_word(c) == [c EXCEPT !.pc = U32Add(c.pc, 2)]

\* `self.pc += self.size_of_next_instruction as u32`
skip_next(c) == [c EXCEPT !.pc = U32Add(c.pc, c.size_of_next_instruction)]

do_io_ab(c, a, b, F(_, _, _)) ==
    LET memory_address == SRAM_IO_OFFSET + a
    IN  Then(get_u8(c, memory_address), LAMBDA cur:
        \* F yields <<core after the closure, new value>>
        set_u8(F(c, cur.val, b)[1], memory_address, F(c, cur.val, b)[2]))

\* A pointer adjustment by one byte instead of PTR_SIZE.
handle_ld_st_byte(c, ptr, variant) ==
    Unwrap(gpr_pair_val(c, ptr), LAMBDA p:
    Then(CASE variant = "Normal" -> Ok(c, p.val)
           [] variant = "Predecrement" -> Checked(c, p.val - 1, 16)
           [] variant = "Postincrement" -> Checked(c, p.val + 1, 16),
         LAMBDA v: set_gpr_pair(c, ptr, v.val)))

handle_ld_st_variant(c, ptr, variant) ==
    Unwrap(gpr_pair_val(c, ptr), LAMBDA p:
    Then(CASE variant = "Normal" -> Ok(c, p.val)
           [] variant = "Predecrement" -> Checked(c, p.val - PTR_SIZE, 16)
           [] variant = "Postincrement" -> Checked(c, p.val + PTR_SIZE, 16),
         LAMBDA v: set_gpr_pair(c, ptr, v.val)))

add(c, lhs, rhs) ==
    Then(do_rdrr(c, lhs, rhs, LAMBDA a, b: a + b, FALSE), LAMBDA sum:
    update_sreg_arithmetic(sum.c, sum.val))

\* An adc that does not read Carry.
adc_without_carry(c, lhs, rhs) == add(c, lhs, rhs)

adc(c, lhs, rhs) ==
    LET constant == IF sreg_flag(c, CARRY_FLAG) THEN 1 ELSE 0
    IN  Then(do_rdrr(c, lhs, rhs, LAMBDA a, b: a + b + constant, FALSE), LAMBDA sum:
        update_sreg_arithmetic(sum.c, sum.val))

adiw(c, rd, imm) ==
    Then(gpr_pair_val(c, rd), LAMBDA p:
    Then(Checked(c, p.val + imm, 16), LAMBDA v:
    Then(set_gpr_pair(c, rd, v.val), LAMBDA w:
    update_sreg_arithmetic(w.c, v.val))))

sub(c, lhs, rhs) ==
    Then(do_rdrr(c, lhs, rhs, LAMBDA a, b: a - b, FALSE), LAMBDA diff:
    update_sreg_arithmetic(diff.c, diff.val))

sbc(c, lhs, rhs) ==
    LET constant == IF sreg_flag(c, CARRY_FLAG) THEN 1 ELSE 0
    IN  Then(do_rdrr(c, lhs, rhs, LAMBDA a, b: a - b - constant, TRUE), LAMBDA diff:
        update_sreg_arithmetic(diff.c, diff.val))

subi(c, rd, imm) ==
    Then(do_rdi(c, rd, LAMBDA d: d - imm, TRUE), LAMBDA diff:
    update_sreg_arithmetic(diff.c, diff.val))

sbci(c, rd, imm) ==
    LET constant == IF sreg_flag(c, CARRY_FLAG) THEN 1 ELSE 0
    IN  Then(do_rdi(c, rd, LAMBDA d: d - imm - constant, TRUE), LAMBDA diff:
        update_sreg_arithmetic(diff.c, diff.val))

sbiw(c, rd, imm) ==
    Then(gpr_pair_val(c, rd), LAMBDA p:
    LET val == (p.val - imm) % 65536
    IN  Then(set_gpr_pair(c, rd, val), LAMBDA w:
        update_sreg_arithmetic(w.c, val)))

mul(c, rd, rr) == Panic(c)

and(c, lhs, rhs) ==
    Then(do_rdrr(c, lhs, rhs, LAMBDA a, b: BitAnd(a, b), FALSE), LAMBDA result:
    Ok(sreg_flag_clear(
         update_negative_flag(
           update_zero_flag(result.c, result.val), result.val), OVERFLOW_FLAG), 0))

andi(c, rd, imm) ==
    Then(do_rdi(c, rd, LAMBDA d: BitAnd(d, imm), FALSE), LAMBDA r: Ok(r.c, 0))

or(c, lhs, rhs) ==
    Then(do_rdrr(c, lhs, rhs, LAMBDA a, b: BitOr(a, b), FALSE), LAMBDA r: Ok(r.c, 0))

ori(c, rd, imm) ==
    Then(do_rdi(c, rd, LAMBDA d: BitAnd(d, imm), FALSE), LAMBDA r: Ok(r.c, 0))

eor(c, lhs, rhs) ==
    Then(do_rdrr(c, lhs, rhs, LAMBDA a, b: BitXor(a, b), FALSE), LAMBDA r: Ok(r.c, 0))

com(c, rd) == do_rd(c, rd, LAMBDA a: \h00ff - a)

\* -(a as i8) overflows for a = 0x80.
neg(c, rd) ==
    Unwrap(gpr(c, rd), LAMBDA r:
    IF r.val = 128 /\ overflow_checks THEN Panic(c)
    ELSE do_rd(c, rd, LAMBDA a: AsU8(-AsI8(a))))

mov(c, lhs, rhs) ==
    Then(do_rdrr(c, lhs, rhs, LAMBDA a, b: b, FALSE), LAMBDA r: Ok(r.c, 0))

movw(c, lhs, rhs) == do_rdrr16(c, lhs, rhs, LAMBDA a, b: b)

inc(c, rd) == do_rd(c, rd, LAMBDA d: (d + 1) % 256)

dec(c, rd) == do_rd(c, rd, LAMBDA d: (d - 1) % 256)

swap(c, rd) ==
    do_rd(c, rd, LAMBDA d:
        LET lo == BitAnd(d, \h000f)
            hi == BitAnd(d, \h00f0)
        IN  BitOr(Shl(lo, 4, 8), Shr(hi, 4)))

push(c, rd) ==
    Then(gpr(c, rd), LAMBDA rd_val:
    Then(gpr(c, SP_LO_NUM), LAMBDA sp:
    IF ~(sp.val > 0) THEN Panic(c)
    ELSE Then(set_u8(c, sp.val, rd_val.val), LAMBDA w:
         Ok([w.c EXCEPT !.registers[SP_LO_NUM] = sp.val - 1], 0))))

pop(c, rd) ==
    Then(gpr(c, rd), LAMBDA rd_val:
    Then(gpr(c, SP_LO_NUM), LAMBDA sp0:
    Then(Checked(c, sp0.val + 1, 8), LAMBDA sp:
    LET c1 == [c EXCEPT !.registers[SP_LO_NUM] = sp.val]
    IN  IF ~(sp.val > 0) THEN Panic(c1)
        ELSE set_u8(c1, sp.val, rd_val.val))))

cp(c, rd, rr) ==
    Then(gpr(c, rd), LAMBDA rd_val:
    Then(gpr(c, rr), LAMBDA rr_val:
    update_sreg_cp(c, rd_val.val, rr_val.val)))

cpc(c, rd, rr) ==
    Then(gpr(c, rd), LAMBDA rd_val:
    Then(gpr(c, rr), LAMBDA rr_val:
    LET carry == IF sreg_flag(c, CARRY_FLAG) THEN 1 ELSE 0
        value == (rd_val.val - rr_val.val - carry) % 65536
    IN  update_sreg_arithmetic(c, value)))

cpse(c, rd, rr) ==
    Then(gpr(c, rd), LAMBDA rd_value:
    Then(gpr(c, rr), LAMBDA rr_value:
    IF rd_value.val = rr_value.val THEN Ok(skip_next(c), 0) ELSE Ok(c, 0)))

cpi(c, rd, imm) == Ok(c, 0)

ldi(c, rd, imm) == do_rd(c, rd, LAMBDA d: imm)

jmp(c, k) == Ok([c EXCEPT !.pc = U32(k)], 0)

call(c, k) ==
    LET return_addr == c.pc[2]          \* self.pc as u16
    IN  Unwrap(gpr_pair_val(c, SP_LO_NUM), LAMBDA sp:
        Then(Checked(c, sp.val - 1, 16), LAMBDA addr:
        Then(set_u16(c, addr.val, return_addr), LAMBDA w:
        Then(Checked(w.c, sp.val - 2, 16), LAMBDA sp2:
        Then(set_gpr_pair(w.c, SP_LO_NUM, sp2.val), LAMBDA x:
        Ok([x.c EXCEPT !.pc = U32(k)], 0))))))

rcall(c, k) == Ok(c, 0)

ret(c) ==
    Unwrap(gpr_pair_val(c, SP_LO_NUM), LAMBDA sp0:
    Then(Checked(c, sp0.val + 2, 16), LAMBDA sp:
    Then(Checked(c, sp.val - 1, 16), LAMBDA addr:
    Then(get_u16(c, addr.val), LAMBDA return_addr:
    Then(set_gpr_pair(c, SP_LO_NUM, sp.val), LAMBDA w:
    Ok([w.c EXCEPT !.pc = U32(return_addr.val)], 0))))))

reti(c) ==
    Then(ret(c), LAMBDA r: Ok(sreg_flag_set(r.c, INTERRUPT_FLAG), 0))

sei(c) == Ok(sreg_flag_set(c, INTERRUPT_FLAG), 0)

cli(c) == Ok(sreg_flag_clear(c, INTERRUPT_FLAG), 0)

sbrs(c, r, b) ==
    Then(gpr(c, r), LAMBDA value:
    IF BitAnd(value.val, Shl(1, b, 8)) # 0 THEN Ok(skip_next(c), 0) ELSE Ok(c, 0))

\* An sts that writes the byte into program space when k lies in it.
sts_to_program(c, rd, k) ==
    Unwrap(gpr(c, rd), LAMBDA value:
        IF k \in DOMAIN c.program_space
        THEN Ok([c EXCEPT !.program_space[k] = value.val], 0)
        ELSE set_u8(c, k, value.val))

sts(c, rd, k) ==
    Unwrap(gpr(c, rd), LAMBDA value: set_u8(c, k, value.val))

lds(c, rd, k) ==
    Then(get_u8(c, k), LAMBDA value: gpr_set_unwrap(c, rd, value.val))

lpm(c, rd, rz, postinc) ==
    IF rz # 30 THEN Panic(c)
    ELSE
    Then(gpr_pair_val(c, rz), LAMBDA z:
    Then(program_get_u8(c, z.val), LAMBDA value:
    Then(gpr_set(c, rd, value.val), LAMBDA w:
    IF postinc = "true"
    THEN Then(Checked(w.c, z.val + 1, 16), LAMBDA z1: set_gpr_pair(w.c, rz, z1.val))
    ELSE Ok(w.c, 0))))

nop(c) == Ok(c, 0)

_in(c, rd, a) ==
    IF ~(a <= \b111111) THEN Panic(c)
    ELSE Then(get_u8(c, SRAM_IO_OFFSET + a), LAMBDA io_val:
         gpr_set_unwrap(c, rd, io_val.val))

out(c, a, rd) ==
    IF ~(a <= \b111111) THEN Panic(c)
    ELSE Then(gpr(c, rd), LAMBDA reg_val: set_u8(c, SRAM_IO_OFFSET + a, reg_val.val))

sbi(c, a, b) ==
    do_io_ab(c, a, b, LAMBDA s, current, bb: <<s, BitOr(current, Shl(1, bb, 8))>>)

sbis(c, a, b) ==
    do_io_ab(c, a, b, LAMBDA s, current, bb:
        <<IF current = bb THEN skip_next(s) ELSE s, current>>)

cbi(c, a, b) ==
    do_io_ab(c, a, b, LAMBDA s, current, bb:
        <<s, BitAnd(current, 255 - Shl(1, bb, 8))>>)

st(c, ptr, reg, variant) ==
    Then(gpr_pair_val(c, ptr), LAMBDA addr:
    Then(gpr(c, reg), LAMBDA val:
    Then(set_u8(c, addr.val, val.val), LAMBDA w:
    handle_ld_st_variant(w.c, ptr, variant))))

\* An ld that adjusts the pointer pair before it reads.
ld_adjust_first(c, reg, ptr, variant) ==
    Then(gpr_pair_val(c, ptr), LAMBDA addr:
    Then(handle_ld_st_variant(c, ptr, variant), LAMBDA a:
    Then(get_u8(a.c, addr.val), LAMBDA val:
    gpr_set(a.c, reg, val.val))))

ld(c, reg, ptr, variant) ==
    Then(gpr_pair_val(c, ptr), LAMBDA addr:
    Then(get_u8(c, addr.val), LAMBDA val:
    Then(gpr_set(c, reg, val.val), LAMBDA w:
    handle_ld_st_variant(w.c, ptr, variant))))

std(c, ptr, imm, reg) ==
    Then(gpr_pair_val(c, ptr), LAMBDA p:
    Then(Checked(c, p.val + imm, 16), LAMBDA addr:
    Then(gpr(c, reg), LAMBDA val:
    set_u8(c, addr.val, val.val))))

ldd(c, reg, ptr, imm) ==
    Then(gpr_pair_val(c, ptr), LAMBDA p:
    Then(Checked(c, p.val + imm, 16), LAMBDA addr:
    Then(get_u8(c, addr.val), LAMBDA val:
    gpr_set(c, reg, val.val))))

----------------------------------------------------------------------------
(* Fetch, dispatch and tick.                                               *)

\* The outcome of inst::binary::read on the bytes of program space from
\* offset off on: rest is the offset of the first byte not consumed.
ReadResult(tag, inst, err, rest) == [tag |-> tag, inst |-> inst, err |-> err, rest |-> rest]

\* The second half of read: no 16-bit matcher took bits16.
read32(space, off, bits16) ==
    IF ~(off + 3 \in DOMAIN space) THEN ReadResult("Panic", None, NoError, off)
    ELSE
    LET b3 == space[off + 2]
        b4 == space[off + 3]
        bits32 == <<bits16, BitOr(Shl(b4, 8, 16), b3)>>
    IN  IF IsSome(try_read32(bits32))
        THEN ReadResult("Ok", try_read32(bits32), NoError, off + 4)
        ELSE ReadResult("Err", None, UnknownInstruction(bits32), off + 4)

read(space, off) ==
    IF ~(off + 1 \in DOMAIN space) THEN ReadResult("Panic", None, NoError, off)
    ELSE
    LET b1 == space[off]
        b2 == space[off + 1]
        bits16 == BitOr(Shl(b2, 8, 16), b1)
    IN  IF IsSome(try_read16(bits16))
        THEN ReadResult("Ok", try_read16(bits16), NoError, off + 2)
        ELSE read32(space, off, bits16)

\* program_space.bytes().skip(self.pc as usize): the offset the stream
\* starts at; beyond the end of the space the stream is empty.
StreamStart(c) ==
    IF c.pc[1] = 0 /\ c.pc[2] \in DOMAIN c.program_space THEN c.pc[2]
    ELSE Cardinality(DOMAIN c.program_space)

\* The look-ahead of fetch, after the first read yielded first.
fetch_next(c, first, next) ==
    IF next.tag = "Panic" THEN Panic(c)
    ELSE IF next.tag = "Err" THEN Err(c, next.err)
    ELSE Ok([c EXCEPT !.size_of_next_instruction = Size(next.inst)], first.inst)

fetch_first(c, first) ==
    IF first.tag = "Panic" THEN Panic(c)
    ELSE IF first.tag = "Err" THEN Err(c, first.err)
    ELSE fetch_next(c, first, read(c.program_space, first.rest))

\* The result's val is the fetched instruction.
fetch(c) == fetch_first(c, read(c.program_space, StreamStart(c)))

update_clock(c) ==
    Then(get_u16(c, CLOCK_LO_ADDR), LAMBDA lo:
    Then(get_u16(c, CLOCK_HI_ADDR), LAMBDA hi:
    LET clk == BitOr(hi.val * 256, lo.val) + 1
        clk_lo == BitAnd(clk, \h00ff)
        clk_hi == AsU16(Shr(clk, 8))
    IN  Then(set_u16(c, CLOCK_LO_ADDR, clk_lo), LAMBDA w:
        set_u16(w.c, CLOCK_HI_ADDR, clk_hi))))

dispatch(c, i) ==
    CASE i.op = "Inc" -> inc(c, i.x)
      [] i.op = "Dec" -> dec(c, i.x)
      [] i.op = "Com" -> com(c, i.x)
      [] i.op = "Neg" -> neg(c, i.x)
      [] i.op = "Push" -> push(c, i.x)
      [] i.op = "Pop" -> pop(c, i.x)
      [] i.op = "Swap" -> swap(c, i.x)
      [] i.op = "Subi" -> subi(c, i.x, i.y)
      [] i.op = "Sbci" -> sbci(c, i.x, i.y)
      [] i.op = "Andi" -> andi(c, i.x, i.y)
      [] i.op = "Ori" -> ori(c, i.x, i.y)
      [] i.op = "Cpi" -> cpi(c, i.x, i.y)
      [] i.op = "Ldi" -> ldi(c, i.x, i.y)
      [] i.op = "Add" -> add(c, i.x, i.y)
      [] i.op = "Adc" -> adc(c, i.x, i.y)
      [] i.op = "Adiw" -> adiw(c, i.x, i.y)
      [] i.op = "Sub" -> sub(c, i.x, i.y)
      [] i.op = "Sbc" -> sbc(c, i.x, i.y)
      [] i.op = "Sbiw" -> sbiw(c, i.x, i.y)
      [] i.op = "Mul" -> mul(c, i.x, i.y)
      [] i.op = "And" -> and(c, i.x, i.y)
      [] i.op = "Or" -> or(c, i.x, i.y)
      [] i.op = "Eor" -> eor(c, i.x, i.y)
      [] i.op = "Cpse" -> cpse(c, i.x, i.y)
      [] i.op = "Cp" -> cp(c, i.x, i.y)
      [] i.op = "Cpc" -> cpc(c, i.x, i.y)
      [] i.op = "Mov" -> mov(c, i.x, i.y)
      [] i.op = "Movw" -> movw(c, i.x, i.y)
      [] i.op = "Nop" -> nop(c)
      [] i.op = "Ret" -> ret(c)
      [] i.op = "Reti" -> reti(c)
      [] i.op = "Sei" -> sei(c)
      [] i.op = "Cli" -> cli(c)
      [] i.op = "Sbrs" -> sbrs(c, i.x, i.y)
      [] i.op = "In" -> _in(c, i.x, i.y)
      [] i.op = "Out" -> out(c, i.x, i.y)
      [] i.op = "Sbi" -> sbi(c, i.x, i.y)
      [] i.op = "Sbis" -> sbis(c, i.x, i.y)
      [] i.op = "Cbi" -> cbi(c, i.x, i.y)
      [] i.op = "Jmp" -> jmp(c, i.x)
      [] i.op = "Call" -> call(c, i.x)
      [] i.op = "Rjmp" -> rjmp(c, i.x)
      [] i.op = "Rcall" -> rcall(c, i.x)
      [] i.op = "Breq" -> do_sreg_branch(c, i.x, sreg_flag(c, ZERO_FLAG))
      [] i.op = "Brne" -> do_sreg_branch(c, i.x, ~sreg_flag(c, ZERO_FLAG))
      [] i.op = "Brcs" -> do_sreg_branch(c, i.x, sreg_flag(c, CARRY_FLAG))
      [] i.op = "Brcc" -> do_sreg_branch(c, i.x, ~sreg_flag(c, CARRY_FLAG))
      [] i.op = "Brmi" -> do_sreg_branch(c, i.x, sreg_flag(c, NEGATIVE_FLAG))
      [] i.op = "Brpl" -> do_sreg_branch(c, i.x, ~sreg_flag(c, NEGATIVE_FLAG))
      [] i.op = "Brge" -> do_sreg_branch(c, i.x, ~sreg_flag(c, S_FLAG))
      [] i.op = "Brlt" -> do_sreg_branch(c, i.x, sreg_flag(c, S_FLAG))
      [] i.op = "Brhs" -> do_sreg_branch(c, i.x, sreg_flag(c, HALF_CARRY_FLAG))
      [] i.op = "Brhc" -> do_sreg_branch(c, i.x, ~sreg_flag(c, HALF_CARRY_FLAG))
      [] i.op = "Brts" -> do_sreg_branch(c, i.x, sreg_flag(c, TRANSFER_FLAG))
      [] i.op = "Brtc" -> do_sreg_branch(c, i.x, ~sreg_flag(c, TRANSFER_FLAG))
      [] i.op = "Brvs" -> do_sreg_branch(c, i.x, sreg_flag(c, OVERFLOW_FLAG))
      [] i.op = "Brvc" -> do_sreg_branch(c, i.x, ~sreg_flag(c, OVERFLOW_FLAG))
      [] i.op = "Brie" -> do_sreg_branch(c, i.x, sreg_flag(c, INTERRUPT_FLAG))
      [] i.op = "Brid" -> do_sreg_branch(c, i.x, ~sreg_flag(c, INTERRUPT_FLAG))
      [] i.op = "Sts" -> sts(c, i.x, i.y)
      [] i.op = "Lds" -> lds(c, i.x, i.y)
      [] i.op = "Lpm" -> lpm(c, i.x, i.y, i.v)
      [] i.op = "St" -> st(c, i.x, i.y, i.v)
      [] i.op = "Std" -> std(c, i.x, i.y, i.z)
      [] i.op = "Ld" -> ld(c, i.x, i.y, i.v)
      [] i.op = "Ldd" -> ldd(c, i.x, i.y, i.z)

execute(c, i) == dispatch([c EXCEPT !.pc = U32Add(c.pc, Size(i))], i)

\* What Core::tick hands back: Ok((inst, pc)), Err(err), or a panic.
TickResult(tag, inst, at, err) == [tag |-> tag, inst |-> inst, pc |-> at, err |-> err]

\* A step of tick failed with r: the error (or the panic) is what tick
\* hands back.
tick_failed(r) == [r EXCEPT !.val = TickResult(r.tag, None, <<0, 0>>, r.err)]

\* A tick that reports the program counter as the instruction left it.
tick_executed_late(i, at, e) ==
    IF ~IsOk(e) THEN tick_failed(e)
    ELSE [e EXCEPT !.val = TickResult("Ok", i, e.c.pc, NoError)]

\* `Ok((inst, pc))` after execute returned e.
tick_executed(i, at, e) ==
    IF ~IsOk(e) THEN tick_failed(e)
    ELSE [e EXCEPT !.val = TickResult("Ok", i, at, NoError)]

\* `self.execute(inst)?` after update_clock returned clk.
tick_clocked(i, at, clk) ==
    IF ~IsOk(clk) THEN tick_failed(clk)
    ELSE tick_executed(i, at, execute(clk.c, i))

\* `let pc = self.pc; self.update_clock()?` after fetch returned f.
tick_fetched(f) ==
    IF ~IsOk(f) THEN tick_failed(f)
    ELSE tick_clocked(f.val, f.c.pc, update_clock(f.c))

\* A tick that advances the clock before it fetches.
tick_clock_first(c) ==
    IF IsOk(update_clock(c)) THEN tick_fetched(fetch(update_clock(c).c))
    ELSE tick_failed(update_clock(c))

\* Core::tick: the result's val is the value returned to the caller.
tick(c) == tick_fetched(fetch(c))

----------------------------------------------------------------------------
(* The Mcu: a core and the addons attached to it.                          *)

\* The implementations of Addon: the listener prints and returns Ok; a
\* failing addon returns an error.  Neither changes the core.
Addons == {"listener", "failing"}

\* Addon::tick of one addon, called with the core, the instruction and its
\* address.
addon_tick(addon, c, inst, at) ==
    IF addon = "listener" THEN Ok(c, 0) ELSE Err(c, StackOverflow)

\* One call of Addon::tick as the addon at position i saw it.
Notification(i, addon, c, inst, at, returned) ==
    [addon |-> i, kind |-> addon, inst |-> inst, pc |-> at, seen |-> c,
     ret |-> returned.tag]

\* What Mcu::tick leaves: the result it returns, the core, the calls of
\* the addons and what Core::tick had returned.
McuResult(tag, err, c, log, val) ==
    [tag |-> tag, err |-> err, c |-> c, log |-> log, val |-> val]

\* A loop over the addons that starts with the one attached last.
RECURSIVE addons_loop_reversed(_, _, _, _, _, _)
addons_loop_reversed(ads, i, c, log, inst, at) ==
    IF i > Len(ads) THEN [c |-> c, log |-> log]
    ELSE addons_loop_reversed(ads, i + 1,
             addon_tick(ads[Len(ads) + 1 - i], c, inst, at).c,
             Append(log, Notification(Len(ads) + 1 - i, ads[Len(ads) + 1 - i], c,
                                      inst, at,
                                      addon_tick(ads[Len(ads) + 1 - i], c, inst, at))),
             inst, at)

\* for addon in self.addons.iter_mut() { let _ = addon.tick(..); }
RECURSIVE addons_loop(_, _, _, _, _, _)
addons_loop(ads, i, c, log, inst, at) ==
    IF i > Len(ads) THEN [c |-> c, log |-> log]
    ELSE addons_loop(ads, i + 1, addon_tick(ads[i], c, inst, at).c,
                     Append(log, Notification(i, ads[i], c, inst, at,
                                              addon_tick(ads[i], c, inst, at))),
                     inst, at)

\* The first addon that returned an error among the calls, 0 if none did.
FirstErr(log) ==
    IF \E i \in 1..Len(log) : log[i].ret = "Err"
    THEN CHOOSE i \in 1..Len(log) :
             log[i].ret = "Err" /\ \A j \in 1..(i - 1) : log[j].ret # "Err"
    ELSE 0

\* An Mcu::tick that returns the first error of an addon with `?`.
mcu_notified_strict(r, done) ==
    IF FirstErr(done.log) = 0 THEN McuResult("Ok", NoError, done.c, done.log, r.val)
    ELSE McuResult("Err", StackOverflow, done.c,
                   SubSeq(done.log, 1, FirstErr(done.log)), r.val)

\* Ok(()) after the loop, whatever the addons returned.
mcu_notified(r, done) == McuResult("Ok", NoError, done.c, done.log, r.val)

\* An Mcu::tick whose loop runs over the addons from the last to the first.
mcu_ticked_reversed(r, ads) ==
    IF IsOk(r)
    THEN mcu_notified(r, addons_loop_reversed(ads, 1, r.c, <<>>, r.val.inst, r.val.pc))
    ELSE McuResult(r.tag, r.err, r.c, <<>>, r.val)

\* let (inst, pc) = self.core.tick()?; then the loop over the addons.
mcu_ticked(r, ads) ==
    IF IsOk(r)
    THEN mcu_notified(r, addons_loop(ads, 1, r.c, <<>>, r.val.inst, r.val.pc))
    ELSE McuResult(r.tag, r.err, r.c, <<>>, r.val)

\* Mcu::tick.
mcu_tick(c, ads) == mcu_ticked(tick(c), ads)

----------------------------------------------------------------------------
(* Machine code for the programs the host loads: the 16-bit words of the   *)
(* encodings that the matchers of the decoder document.                    *)

\* rdrr: <|opcode|ffrd|dddd|rrrr|>
enc_rdrr(opcode, rd, rr) == opcode * 1024 + (rr \div 16) * 512 + rd * 16 + (rr % 16)

\* rd: <|opcode|fffd|dddd|ffff|>
enc_rd(opcode, rd) == (opcode \div 16) * 512 + rd * 16 + (opcode % 16)

\* rdk: <|opcode|KKKK|dddd|KKKK|>
enc_rdk(opcode, rd, k) == opcode * 4096 + (k \div 16) * 256 + (rd - 16) * 16 + (k % 16)

\* <ffff|kkkk|kkkk|kkkk>
enc_k16(opcode, k) == opcode * 4096 + k

\* <|1001|010k|kkkk|fffk|kkkk|kkkk|kkkk|kkkk|>, the two words
enc_k32(subopcode, k) ==
    << \b1001010 * 512 + ((k \div 131072) % 32) * 16 + subopcode * 2 + ((k \div 65536) % 2),
       k % 65536 >>

\* SBRS: 1111 111r rrrr 0bbb
enc_sbrs(r, b) == \b1111111 * 512 + r * 16 + b

\* SBIS: 1001 1011 AAAA Abbb (and CBI, SBI)
enc_io_ab(opcode, a, b) == opcode * 256 + a * 8 + b

\* LD/ST: opcode (7 bits), register, subop (4 bits)
enc_st_ld(opcode, reg, subop) == opcode * 512 + reg * 16 + subop

\* (std|ldd): 10q0 qqfr rrrr pqqq
enc_std_ldd(f, reg, ptr, q) ==
    \b10 * 16384 + (q \div 32) * 8192 + ((q \div 8) % 4) * 1024 + f * 512
    + reg * 16 + ptr * 8 + (q % 8)

\* LDS/STS: the opcode word and the 16-bit address
enc_lds_sts(opcode, reg, k) == << (opcode \div 16) * 512 + reg * 16 + (opcode % 16), k >>

NOP == 0
RET == \h9508

\* Space::new(size) followed by Space::load(bytes): the bytes of the words,
\* low byte first, from address 0 on, in a space of zeroes.
LoadWords(words, size) ==
    [addr \in 0..(size - 1) |->
        IF addr \div 2 + 1 \in DOMAIN words
        THEN IF addr % 2 = 0 THEN words[addr \div 2 + 1] % 256
             ELSE words[addr \div 2 + 1] \div 256
        ELSE 0]

----------------------------------------------------------------------------
(* The set-ups the host runs: a program and initial register and memory    *)
(* contents, written through load_program_space, register_file_mut and     *)
(* memory_mut before the first tick.                                       *)

\* Number of ticks the host runs.
MaxTicks == 6
MaxAddons == 2

ByteSamples == {0, 1, 15, 127, 128, 255}

NoParams == [a |-> 0, b |-> 0, d |-> 0, r |-> 0, k |-> 0, m |-> 0, q |-> 0,
             sp |-> 0, at |-> 0, next |-> 0, mode |-> "", flags |-> 0]

Scenario(name, words, regs, mem, start, p) ==
    [name |-> name, words |-> words, regs |-> regs, mem |-> mem,
     pc |-> start, p |-> p]

\* add Rd,Rr with Rd = a and Rr = b (one value when d = r).
AddScenarios ==
    { Scenario("add", <<enc_rdrr(\b000011, d, r), NOP>>,
               (r :> b) @@ (d :> a), <<>>, 0,
               [NoParams EXCEPT !.a = a, !.b = b, !.d = d, !.r = r]) :
        a \in ByteSamples, b \in ByteSamples, d \in {16}, r \in {17} }
    \cup
    { Scenario("add", <<enc_rdrr(\b000011, 16, 16), NOP>>,
               (16 :> a), <<>>, 0,
               [NoParams EXCEPT !.a = a, !.b = a, !.d = 16, !.r = 16]) :
        a \in ByteSamples }

\* The opcodes of the encodings the programs below use, as the matchers of
\* the decoder list them.
OP_PUSH == \b10010011111
OP_POP == \b10010001111
OP_INC == \b10010100011
OP_LDI == \b1110
OP_CPSE == \b000100
OP_SBIS == \b10011011
OP_STS == \b10010010000
OP_JMP == \b110
OP_CALL == \b111
OP_RJMP == \b1100

\* Nothing written through memory_mut.
NoMem == [addr \in {} |-> 0]

\* push Rr ; pop Rd, and push Rr ; ldi Rd,k ; pop Rd.
PushPopScenarios ==
    { Scenario("pushpop",
               IF between
               THEN <<enc_rd(OP_PUSH, rd[1]), enc_rdk(OP_LDI, rd[2], 9),
                      enc_rd(OP_POP, rd[2]), NOP>>
               ELSE <<enc_rd(OP_PUSH, rd[1]), enc_rd(OP_POP, rd[2]), NOP>>,
               (SP_LO_NUM :> sp) @@ (rd[1] :> a) @@ (rd[2] :> 7), NoMem, 0,
               [NoParams EXCEPT !.a = a, !.r = rd[1], !.d = rd[2], !.sp = sp,
                                !.at = IF between THEN 4 ELSE 2]) :
        a \in {0, 5, 255}, rd \in {<<16, 16>>, <<16, 17>>},
        sp \in {1, 95, 255}, between \in BOOLEAN }

\* 0: call 8 ; 4: nop ; 6: nop ; 8: call 14 ; 12: ret ; 14: ret
CallRetScenarios ==
    { Scenario("callret",
               enc_k32(OP_CALL, 4) \o <<NOP, NOP>> \o enc_k32(OP_CALL, 7)
                 \o <<RET, RET, NOP>>,
               (SP_LO_NUM :> sp % 256) @@ (SP_HI_NUM :> sp \div 256), NoMem, 0,
               [NoParams EXCEPT !.sp = sp]) :
        sp \in {255, 260, 262, 267} }

\* The instruction after a skip instruction: inc r18 (one word) or
\* sts 0x0060, r19 (two words), with r19 = 0xAB.
Follower(two_words) ==
    IF two_words THEN enc_lds_sts(OP_STS, 19, 96) ELSE <<enc_rd(OP_INC, 18)>>

\* cpse Rd,Rr ; follower   and   sbrs Rr,b ; follower
SkipScenarios ==
    { Scenario("cpse", <<enc_rdrr(OP_CPSE, rd[1], rd[2])>> \o Follower(n) \o <<NOP>>,
               (19 :> 171) @@ (rd[1] :> a) @@ (rd[2] :> b), NoMem, 0,
               [NoParams EXCEPT !.a = a, !.b = IF rd[1] = rd[2] THEN a ELSE b,
                                !.d = rd[1], !.r = rd[2],
                                !.next = IF n THEN 4 ELSE 2]) :
        a \in {0, 5}, b \in {5, 6}, rd \in {<<16, 17>>, <<16, 16>>},
        n \in BOOLEAN }
    \cup
    { Scenario("sbrs", <<enc_sbrs(16, b)>> \o Follower(n) \o <<NOP>>,
               (19 :> 171) @@ (16 :> a), NoMem, 0,
               [NoParams EXCEPT !.a = a, !.b = b, !.r = 16,
                                !.next = IF n THEN 4 ELSE 2]) :
        a \in {0, 1, 8, 128, 254, 255}, b \in {0, 3, 7}, n \in BOOLEAN }

\* sbis A,b ; follower, with the I/O byte at 0x20 + A holding m.
SbisScenarios ==
    { Scenario("sbis", <<enc_io_ab(OP_SBIS, a, b)>> \o Follower(n) \o <<NOP>>,
               (19 :> 171), ((SRAM_IO_OFFSET + a) :> m), 0,
               [NoParams EXCEPT !.a = a, !.b = b, !.m = m,
                                !.next = IF n THEN 4 ELSE 2]) :
        a \in {5, 31}, b \in 0..7, m \in {0, 1, 2, 3, 7, 128, 255},
        n \in BOOLEAN }

Variants == {"Normal", "Postincrement", "Predecrement"}

\* The opcode and the sub-opcode of st (store = TRUE) or ld through pointer
\* pair ptr in the given variant, from the table of try_read_st_ld.
StLdCode(store, ptr, variant) ==
    IF variant = "Normal" /\ ptr # 26
    THEN << IF store THEN \b1000001 ELSE \b1000000,
            IF ptr = 28 THEN \b1000 ELSE \b0000 >>
    ELSE << IF store THEN \b1001001 ELSE \b1001000,
            (CASE ptr = 26 -> \b1100 [] ptr = 28 -> \b1000 [] ptr = 30 -> \b0000)
            + (CASE variant = "Normal" -> 0
                 [] variant = "Postincrement" -> 1
                 [] variant = "Predecrement" -> 2) >>

\* Data space filled with a byte pattern, the clock bytes left at zero.
PatternMem ==
    [addr \in 0..(MemorySize - 1) |->
        IF addr \in CLOCK_LO_ADDR..(CLOCK_HI_ADDR + 1) THEN 0
        ELSE (addr * 7 + 3) % 256]

\* st P,Rr / ld Rd,P in the three variants with pointer value k, and
\* std P+q,Rr / ldd Rd,P+q; the register holds 0xA5 unless it is part of
\* the pointer pair.
PointerScenarios ==
    { Scenario("ptr",
               <<enc_st_ld(StLdCode(store, ptr, v)[1], reg,
                           StLdCode(store, ptr, v)[2]), NOP>>,
               (ptr :> k % 256) @@ ((ptr + 1) :> k \div 256) @@ (reg :> 165),
               PatternMem, 0,
               [NoParams EXCEPT !.d = ptr, !.r = reg, !.k = k, !.mode = v]) :
        store \in BOOLEAN, ptr \in {26, 28, 30}, v \in Variants,
        reg \in {16, 26, 31}, k \in {0, 1, 96, MemorySize - 1} }
    \cup
    { Scenario("disp",
               <<enc_std_ldd(IF store THEN 1 ELSE 0, reg,
                             IF ptr = 28 THEN 1 ELSE 0, q), NOP>>,
               (ptr :> k % 256) @@ ((ptr + 1) :> k \div 256) @@ (reg :> 165),
               PatternMem, 0,
               [NoParams EXCEPT !.d = ptr, !.r = reg, !.k = k, !.q = q]) :
        store \in BOOLEAN, ptr \in {28, 30}, reg \in {16, 28, 31},
        q \in {1, 63}, k \in {96, 65535} }

\* The 12-bit fields of the rjmp encodings the programs use.
RjmpFields == {0, 1, 2, 5, 2047, 2048, 2049, 4090, 4093, 4094, 4095}

\* rjmp at address 0, and at address 4 after two nops.
RjmpScenarios ==
    { Scenario("rjmp",
               (IF at = 4 THEN <<NOP, NOP>> ELSE <<>>)
                 \o <<enc_k16(OP_RJMP, k), NOP>>,
               <<>>, NoMem, 0,
               [NoParams EXCEPT !.k = k, !.at = at]) :
        k \in RjmpFields, at \in {0, 4} }

\* brne with the 7-bit field k at address 0; Zero is clear, so it is taken.
BranchScenarios ==
    { Scenario("brne", <<\b1111010000000001 + k * 8, NOP>>,
               <<>>, NoMem, 0, [NoParams EXCEPT !.k = k]) :
        k \in {2, 127} }

\* The address of the last whole word of program space.
LastWord == 2 * ((FlashSize - 2) \div 2)

\* Words no matcher takes at address 0, and a jump to such a word in the
\* last two bytes of program space.
UnknownScenarios ==
    { Scenario("unknown", <<w[1], w[2], NOP>>, <<>>, NoMem, 0, NoParams) :
        w \in {<<\hFFFF, \hFFFF>>, <<\hFFFF, \h1234>>, <<\hFF08, 0>>} }
    \cup
    \* ldi r16,5 ; nop ; an unknown word pair: the second tick's look-ahead
    \* meets it, the third tick's first read does.
    { Scenario("late", <<enc_rdk(OP_LDI, 16, 5), NOP, \hFFFF, \hFFFF, NOP>>,
               <<>>, NoMem, 0, NoParams) }
    \cup
    { Scenario("short",
               [i \in 1..(LastWord \div 2 + 1) |->
                   IF i <= 2 THEN enc_k32(OP_JMP, LastWord \div 2)[i]
                   ELSE IF i = LastWord \div 2 + 1 THEN \hFFFF
                   ELSE NOP],
               <<>>, NoMem, 0, [NoParams EXCEPT !.at = LastWord]) }

\* push with the stack pointer at 0, and pop with the stack pointer at 0
\* and at 255, from where the increment comes back to 0.
GuardScenarios ==
    { Scenario("guard", <<enc_rd(op, 16), NOP>>,
               (SP_LO_NUM :> sp) @@ (16 :> 5), NoMem, 0,
               [NoParams EXCEPT !.sp = sp]) :
        op \in {OP_PUSH, OP_POP}, sp \in {0, 255} }

\* lpm r16,Z+ with Z = 0, then sts k,r16 with k an address that also
\* exists in program space, a nop, then a word pair no matcher takes.
OP_LPM_INC == \b10010000101
FlashScenarios ==
    { Scenario("flash",
               <<enc_rd(OP_LPM_INC, 16)>> \o enc_lds_sts(OP_STS, 16, k)
                   \o <<NOP, \hFFFF, \hFFFF, NOP>>,
               <<>>, NoMem, 0, [NoParams EXCEPT !.k = k]) : k \in {8, 19} }

\* ldd and std with displacements that use each group of q bits, and 0.
DisplacementScenarios ==
    { Scenario("q",
               <<enc_std_ldd(IF store THEN 1 ELSE 0, 16,
                             IF ptr = 28 THEN 1 ELSE 0, q), NOP>>,
               (ptr :> 96) @@ (16 :> 165), PatternMem, 0,
               [NoParams EXCEPT !.d = ptr, !.r = 16, !.k = 96, !.q = q]) :
        store \in BOOLEAN, ptr \in {28, 30}, q \in {0, 7, 8, 32} }

\* Loads and stores whose address is the first one outside data space or
\* the last one of the 16-bit range; ldd/std also from the last address
\* inside data space, which the displacement leaves.
OP_LDS == \b10010000000
FaultScenarios ==
    { Scenario("fault",
               <<enc_st_ld(StLdCode(store, ptr, v)[1], 16,
                           StLdCode(store, ptr, v)[2]), NOP>>,
               (ptr :> k % 256) @@ ((ptr + 1) :> k \div 256) @@ (16 :> 165),
               PatternMem, 0,
               [NoParams EXCEPT !.d = ptr, !.r = 16, !.k = k, !.mode = v]) :
        store \in BOOLEAN, ptr \in {26, 30}, v \in Variants,
        k \in {MemorySize, 65535} }
    \cup
    { Scenario("fault",
               <<enc_std_ldd(IF store THEN 1 ELSE 0, 16, 1, 1), NOP>>,
               (28 :> k % 256) @@ (29 :> k \div 256) @@ (16 :> 165),
               PatternMem, 0,
               [NoParams EXCEPT !.d = 28, !.r = 16, !.k = k, !.q = 1]) :
        store \in BOOLEAN, k \in {MemorySize - 1, MemorySize} }
    \cup
    { Scenario("fault", enc_lds_sts(op, 16, k) \o <<NOP>>,
               (16 :> 165), PatternMem, 0,
               [NoParams EXCEPT !.r = 16, !.k = k]) :
        op \in {OP_LDS, OP_STS}, k \in {MemorySize, 65535} }

\* push with a stack pointer whose high byte is in use.
WideStackScenarios ==
    { Scenario("wide", <<enc_rd(OP_PUSH, 16), NOP>>,
               (SP_LO_NUM :> sp % 256) @@ (SP_HI_NUM :> sp \div 256) @@ (16 :> 5),
               NoMem, 0, [NoParams EXCEPT !.sp = sp, !.r = 16, !.a = 5]) :
        sp \in {255, 256, 257} }

\* and, or and eor of r16 and r17 over operands with low and high bits.
OP_AND == \b001000
OP_OR == \b001010
OP_EOR == \b001001
LogicScenarios ==
    { Scenario("logic", <<enc_rdrr(op, 16, 17), NOP>>,
               (16 :> a) @@ (17 :> b), NoMem, 0,
               [NoParams EXCEPT !.a = a, !.b = b, !.d = 16, !.r = 17]) :
        op \in {OP_AND, OP_OR, OP_EOR}, a \in {0, 15, 240, 255},
        b \in {0, 15, 240, 255} }

\* A conditional branch over one word: brbs (set = 1) or brbc (set = 0) on
\* flag bit number flag, with the offset field k.
enc_br(set, flag, k) == \b111100 * 1024 + (1 - set) * 1024 + k * 8 + flag

\* andi, ori and cpi on r16; cpi is followed by breq or brne over one word.
OP_ANDI == \b0111
OP_ORI == \b0110
OP_CPI == \b0011
ImmediateScenarios ==
    { Scenario("imm", <<enc_rdk(op, 16, K), NOP>>, (16 :> a), NoMem, 0,
               [NoParams EXCEPT !.a = a, !.k = K, !.d = 16]) :
        op \in {OP_ANDI, OP_ORI}, a \in {0, 15, 240, 255}, K \in {0, 15, 240, 255} }
    \cup
    { Scenario("cpi", <<enc_rdk(OP_CPI, 16, K), enc_br(set, 1, 1), NOP, NOP>>,
               (16 :> a), NoMem, 0,
               [NoParams EXCEPT !.a = a, !.k = K, !.d = 16, !.m = set]) :
        set \in {0, 1}, a \in {0, 15, 255}, K \in {0, 15, 255} }

\* sub r16,r17, and cp r16,r17 followed by breq or brcs over one word.
OP_SUB == \b000110
OP_CP == \b000101
SubtractScenarios ==
    { Scenario("sub", <<enc_rdrr(OP_SUB, 16, 17), NOP>>,
               (16 :> a) @@ (17 :> b), NoMem, 0,
               [NoParams EXCEPT !.a = a, !.b = b, !.d = 16, !.r = 17]) :
        a \in ByteSamples, b \in ByteSamples }
    \cup
    { Scenario("cp", <<enc_rdrr(OP_CP, 16, 17), enc_br(1, flag, 1), NOP, NOP>>,
               (16 :> a) @@ (17 :> b), NoMem, 0,
               [NoParams EXCEPT !.a = a, !.b = b, !.d = 16, !.r = 17, !.m = flag]) :
        flag \in {0, 1}, a \in ByteSamples, b \in ByteSamples }

\* Every conditional branch, at address 0 and at address 4 behind two nops,
\* forward over one word and backward by two words, with its flag set
\* alone, clear alone, and with no flag set.
FlagScenarios ==
    { Scenario("br",
               IF at = 0 THEN <<enc_br(set, flag, k), NOP>>
               ELSE <<NOP, NOP, enc_br(set, flag, k), NOP>>,
               <<>>, NoMem, 0,
               [NoParams EXCEPT !.at = at, !.k = k, !.b = flag, !.m = set,
                                !.flags = CASE f = 0 -> 0
                                             [] f = 1 -> 2 ^ flag
                                             [] OTHER -> 255 - 2 ^ flag]) :
        set \in {0, 1}, flag \in 0..7, k \in {1, 126}, at \in {0, 4},
        f \in 0..2 }

\* sts k,r16 and then lds r17,k, for addresses over the whole data space.
DirectScenarios ==
    { Scenario("direct",
               enc_lds_sts(OP_STS, 16, k) \o enc_lds_sts(OP_LDS, 17, k) \o <<NOP>>,
               (16 :> v), NoMem, 0, [NoParams EXCEPT !.k = k, !.a = v]) :
        k \in {0, 17, 96, CLOCK_LO_ADDR - 1, CLOCK_LO_ADDR, CLOCK_LO_ADDR + 1,
                CLOCK_HI_ADDR, CLOCK_HI_ADDR + 1, CLOCK_HI_ADDR + 2,
                MemorySize - 1},
        v \in ByteSamples }

\* 16-bit values whose sums carry out of the low byte, the high byte, both
\* or neither.
WordSamples == {0, 1, 255, 256, 511, 32767, 33023, 65280, 65535}

\* add Ra,Rc ; adc Rb,Rd with x in Rb:Ra and y in Rd:Rc, for adjacent and
\* for scattered registers.
OP_ADD == \b000011
OP_ADC == \b000111
WideAddScenarios ==
    { Scenario("add16",
               <<enc_rdrr(OP_ADD, rs[1], rs[3]), enc_rdrr(OP_ADC, rs[2], rs[4]), NOP>>,
               (rs[1] :> x % 256) @@ (rs[2] :> x \div 256)
                   @@ (rs[3] :> y % 256) @@ (rs[4] :> y \div 256),
               NoMem, 0,
               [NoParams EXCEPT !.a = x, !.b = y, !.d = rs[1], !.r = rs[2]]) :
        rs \in {<<24, 25, 26, 27>>, <<31, 0, 9, 16>>},
        x \in WordSamples, y \in WordSamples }

\* jmp and call with word addresses that use the high bits of K.
FarScenarios ==
    { Scenario("far", enc_k32(op, K) \o <<NOP>>,
               (SP_LO_NUM :> 255), NoMem, 0, [NoParams EXCEPT !.k = K]) :
        op \in {OP_JMP, OP_CALL},
        K \in {3, 65536, 131071, 131072, 131073, 4194303} }

\* jmp to the last word of program space (a nop), to its end and beyond.
EndScenarios ==
    { Scenario("end", <<enc_k32(OP_JMP, K)[1], enc_k32(OP_JMP, K)[2], NOP>>,
               <<>>, NoMem, 0, [NoParams EXCEPT !.at = 2 * K]) :
        K \in {LastWord \div 2, LastWord \div 2 + 1, LastWord \div 2 + 4} }

Scenarios ==
    AddScenarios \cup PushPopScenarios \cup CallRetScenarios
    \cup SkipScenarios \cup SbisScenarios \cup PointerScenarios
    \cup RjmpScenarios \cup BranchScenarios \cup UnknownScenarios
    \cup EndScenarios \cup GuardScenarios \cup FlashScenarios
    \cup FarScenarios \cup DisplacementScenarios \cup FaultScenarios
    \cup WideStackScenarios \cup LogicScenarios
    \cup ImmediateScenarios \cup SubtractScenarios \cup FlagScenarios
    \cup DirectScenarios \cup WideAddScenarios

----------------------------------------------------------------------------
(* The specification.                                                      *)

NoResult == TickResult("None", None, <<0, 0>>, NoError)

NoMcuResult == [tag |-> "None", err |-> NoError]

\* The programs the host also runs through an Mcu.
McuPrograms == {"callret", "late"}

Init ==
    /\ scn \in Scenarios
    /\ host \in IF scn.name \in McuPrograms THEN {"core", "mcu"} ELSE {"core"}
    /\ addons = <<>>
    /\ notified = <<>>
    /\ mcu_outcome = NoMcuResult
    /\ last_call = "new"
    /\ overflow_checks \in BOOLEAN
    /\ pc = U32(scn.pc)
    /\ registers = [i \in 0..(NumRegisters - 1) |->
                      IF i \in DOMAIN scn.regs THEN scn.regs[i] ELSE 0]
    /\ sreg = scn.p.flags
    /\ memory = [addr \in 0..(MemorySize - 1) |->
                   IF addr \in DOMAIN scn.mem THEN scn.mem[addr] ELSE 0]
    /\ program_space = LoadWords(scn.words, FlashSize)
    /\ size_of_next_instruction = 0
    /\ outcome = NoResult
    /\ pre = [pc |-> U32(scn.pc),
              registers |-> [i \in 0..(NumRegisters - 1) |->
                               IF i \in DOMAIN scn.regs THEN scn.regs[i] ELSE 0],
              sreg |-> scn.p.flags,
              memory |-> [addr \in 0..(MemorySize - 1) |->
                            IF addr \in DOMAIN scn.mem THEN scn.mem[addr] ELSE 0],
              program_space |-> LoadWords(scn.words, FlashSize),
              size_of_next_instruction |-> 0]
    /\ ticks = 0

\* The core and the returned value after a call of tick that yielded r.
Returns(r) ==
    /\ pc' = r.c.pc
    /\ registers' = r.c.registers
    /\ sreg' = r.c.sreg
    /\ memory' = r.c.memory
    /\ program_space' = r.c.program_space
    /\ size_of_next_instruction' = r.c.size_of_next_instruction
    /\ outcome' = r.val

\* One call of Core::tick by the host; a panic ends the process.
Tick ==
    /\ outcome.tag # "Panic"
    /\ ticks < MaxTicks
    /\ Returns(tick(Core))
    /\ pre' = Core
    /\ ticks' = ticks + 1
    /\ last_call' = "Core::tick"
    /\ UNCHANGED <<scn, overflow_checks, host, addons, notified, mcu_outcome>>

\* The core, the returned value and the addon calls after a call of
\* Mcu::tick that yielded m.
McuReturns(m) ==
    /\ pc' = m.c.pc
    /\ registers' = m.c.registers
    /\ sreg' = m.c.sreg
    /\ memory' = m.c.memory
    /\ program_space' = m.c.program_space
    /\ size_of_next_instruction' = m.c.size_of_next_instruction
    /\ outcome' = m.val
    /\ mcu_outcome' = [tag |-> m.tag, err |-> m.err]
    /\ notified' = m.log

\* One call of Mcu::tick by the host.
McuTick ==
    /\ host = "mcu"
    /\ outcome.tag # "Panic"
    /\ ticks < MaxTicks
    /\ McuReturns(mcu_tick(Core, addons))
    /\ pre' = Core
    /\ ticks' = ticks + 1
    /\ last_call' = "Mcu::tick"
    /\ UNCHANGED <<scn, overflow_checks, host, addons>>

\* Mcu::attach: the addon goes to the end of the list.
Attach ==
    /\ host = "mcu"
    /\ outcome.tag # "Panic"
    /\ Len(addons) < MaxAddons
    /\ \E addon \in Addons : addons' = Append(addons, addon)
    /\ last_call' = "Mcu::attach"
    /\ UNCHANGED <<pc, registers, sreg, memory, program_space,
                   size_of_next_instruction, outcome, pre, scn, overflow_checks,
                   ticks, host, notified, mcu_outcome>>

Next == Tick \/ McuTick \/ Attach

Spec == Init /\ [][Next]_vars

----------------------------------------------------------------------------
(* The countdown loop: a host that calls tick until the program counter    *)
(* is behind the loop.                                                     *)

OP_SUBI == \b0101

\* Initial counts: the wrap at 0, the shortest countdowns, the counts around
\* a change of nibble, the counts around the sign bit and the largest.
LoopCounts == {0, 1, 2, 3, 4, 15, 16, 127, 128, 129, 254, 255}

\* ldi r16,n ; L: subi r16,1 ; brne L ; nop ; nop
LoopScenarios ==
    { Scenario("loop",
               <<enc_rdk(OP_LDI, 16, n), enc_rdk(OP_SUBI, 16, 1),
                 enc_br(0, 1, 126), NOP, NOP>>,
               <<>>, NoMem, 0, [NoParams EXCEPT !.a = n, !.d = 16]) :
        n \in LoopCounts }

\* The address of the instruction after brne.
LoopExit == U32(6)

\* Ticks of the longest countdown: ldi, then 256 times subi and brne.
MaxLoopTicks == 513

LoopInit ==
    /\ scn \in LoopScenarios
    /\ host = "core"
    /\ addons = <<>>
    /\ notified = <<>>
    /\ mcu_outcome = NoMcuResult
    /\ last_call = "new"
    /\ overflow_checks \in BOOLEAN
    /\ pc = U32(scn.pc)
    /\ registers = [i \in 0..(NumRegisters - 1) |-> 0]
    /\ sreg = scn.p.flags
    /\ memory = [addr \in 0..(MemorySize - 1) |-> 0]
    /\ program_space = LoadWords(scn.words, FlashSize)
    /\ size_of_next_instruction = 0
    /\ outcome = NoResult
    /\ pre = [pc |-> U32(scn.pc),
              registers |-> [i \in 0..(NumRegisters - 1) |-> 0],
              sreg |-> scn.p.flags,
              memory |-> [addr \in 0..(MemorySize - 1) |-> 0],
              program_space |-> LoadWords(scn.words, FlashSize),
              size_of_next_instruction |-> 0]
    /\ ticks = 0

\* The host calls tick while the program counter is inside the loop.
LoopGuard ==
    /\ outcome.tag # "Panic"
    /\ pc # LoopExit
    /\ ticks < MaxLoopTicks

\* One call of Core::tick.
LoopTick ==
    /\ LoopGuard
    /\ Returns(tick(Core))
    /\ pre' = Core
    /\ ticks' = ticks + 1
    /\ last_call' = "Core::tick"
    /\ UNCHANGED <<scn, overflow_checks, host, addons, notified, mcu_outcome>>

LoopNext == LoopTick

\* A call of tick seen through the count of calls alone. tick is a total
\* function of the core, so LoopTick is enabled exactly when LoopGuard holds,
\* and a step of LoopNext is a LoopTick step exactly when it is a
\* TickCounted step.
TickCounted == LoopGuard /\ ticks' = ticks + 1

\* The host keeps calling tick as long as the loop has not been left:
\* weak fairness of the call, stated on TickCounted.
LoopSpec == LoopInit /\ [][LoopNext]_vars /\ WF_ticks(TickCounted)

----------------------------------------------------------------------------
(* The decoder over its patterns: a host that loads one word, followed by  *)
(* nops or by a word of ones, and calls tick once.                         *)

\* The patterns decoded: every value of the high byte and of the low nibble
\* (the opcode bits of every format, and the bits of Rr, A, b, K and k),
\* with the lowest two and the highest two values of bits 7..4 (the low bits
\* of Rd, the Rd nibble of movw and rdk, KKdd of adiw), and the patterns the
\* decoder matches whole.
Patterns ==
    {w \in 0..65535 : (w \div 16) % 16 \in {0, 1, 14, 15}}
        \cup {\h9508, \h9518, \h95C8, \h9478, \h94F8}

\* Every pattern followed by nops; a pattern that no 16-bit matcher takes
\* also followed by a second word of ones.
DecodeScenarios ==
    { Scenario("decode", <<w, NOP, NOP, NOP>>, <<>>, NoMem, 0,
               [NoParams EXCEPT !.k = w]) : w \in Patterns }
    \cup
    { Scenario("decode", <<w, 65535, NOP, NOP>>, <<>>, NoMem, 0,
               [NoParams EXCEPT !.k = w, !.next = 65535]) :
        w \in {v \in Patterns : ~IsSome(try_read16(v))} }

DecodeInit ==
    /\ scn \in DecodeScenarios
    /\ host = "core"
    /\ addons = <<>>
    /\ notified = <<>>
    /\ mcu_outcome = NoMcuResult
    /\ last_call = "new"
    /\ overflow_checks \in BOOLEAN
    /\ pc = U32(scn.pc)
    /\ registers = [i \in 0..(NumRegisters - 1) |-> 0]
    /\ sreg = scn.p.flags
    /\ memory = [addr \in 0..(MemorySize - 1) |-> 0]
    /\ program_space = LoadWords(scn.words, FlashSize)
    /\ size_of_next_instruction = 0
    /\ outcome = NoResult
    /\ pre = [pc |-> U32(scn.pc),
              registers |-> [i \in 0..(NumRegisters - 1) |-> 0],
              sreg |-> scn.p.flags,
              memory |-> [addr \in 0..(MemorySize - 1) |-> 0],
              program_space |-> LoadWords(scn.words, FlashSize),
              size_of_next_instruction |-> 0]
    /\ ticks = 0

\* The one call of Core::tick.
DecodeTick ==
    /\ last_call = "new"
    /\ Returns(tick(Core))
    /\ pre' = Core
    /\ ticks' = ticks + 1
    /\ last_call' = "Core::tick"
    /\ UNCHANGED <<scn, overflow_checks, host, addons, notified, mcu_outcome>>

DecodeNext == DecodeTick

DecodeSpec == DecodeInit /\ [][DecodeNext]_vars

----------------------------------------------------------------------------
(* Properties.                                                             *)

\* The instruction the decoder yields at the program counter of core c.
DecodedAt(c) == read(c.program_space, StreamStart(c))

Flag(mask) == BitAnd(sreg, mask) = mask

\* The last tick succeeded and executed an instruction of kind op.
Executed(op) == outcome.tag = "Ok" /\ outcome.inst.op = op

\* C1: a successful tick returns the instruction decoded at the program
\* counter held before the tick together with that program counter, also
\* when the instruction overwrote the program counter.
C1_TickReturnsFetched ==
    outcome.tag = "Ok" =>
        /\ outcome.pc = pre.pc
        /\ DecodedAt(pre).tag = "Ok"
        /\ outcome.inst = DecodedAt(pre).inst

\* C2: after add Rd,Rr with operand values a and b, Carry is set iff
\* a + b > 0xFF, Zero iff the stored value (a + b) mod 256 is 0, and Negative
\* iff bit 7 of the stored value is set.
C2_AddFlags ==
    Executed("Add") =>
        LET a == pre.registers[outcome.inst.x]
            b == pre.registers[outcome.inst.y]
        IN  /\ Flag(CARRY_FLAG) <=> (a + b > 255)
            /\ Flag(ZERO_FLAG) <=> ((a + b) % 256 = 0)
            /\ Flag(NEGATIVE_FLAG) <=> ((a + b) % 256 >= 128)

\* C3: after add with operand values 0x7F and 0x01 the Overflow and Negative
\* flags are set and the Zero and Carry flags are clear.
C3_AddSignedOverflow ==
    (/\ Executed("Add")
     /\ pre.registers[outcome.inst.x] = 127
     /\ pre.registers[outcome.inst.y] = 1) =>
        /\ Flag(OVERFLOW_FLAG)
        /\ Flag(NEGATIVE_FLAG)
        /\ ~Flag(ZERO_FLAG)
        /\ ~Flag(CARRY_FLAG)

C1_JumpObserved ==
    /\ outcome.tag = "Ok"
    /\ outcome.inst.op \in {"Call", "Ret", "Jmp", "Rjmp", "Brne", "Cpse", "Sbrs", "Sbis"}
    /\ pc # U32Add(pre.pc, Size(outcome.inst))
    /\ outcome.pc = pre.pc
    /\ outcome.inst = DecodedAt(pre).inst

\* The 16-bit stack pointer.
StackPointer == registers[SP_HI_NUM] * 256 + registers[SP_LO_NUM]

\* The pop of a push/pop program has just executed.
Popped ==
    /\ scn.name = "pushpop"
    /\ Executed("Pop")
    /\ pre.pc = U32(scn.p.at)

\* C4: push Rr followed by pop Rd (also with Rd overwritten in between)
\* leaves Rd equal to the value Rr held at the push and the stack pointer
\* equal to its value before the push.
C4_PushPopSymmetry ==
    Popped =>
        /\ registers[scn.p.d] = scn.p.a
        /\ StackPointer = scn.p.sp

\* C5: in the nested program 0: call 8 ; 8: call 14 ; 14: ret ; 12: ret each
\* ret sets the program counter to the address after its matching call, and
\* after the last ret the stack pointer is back at its initial value.
C5_CallRetLifo ==
    (scn.name = "callret" /\ ticks \in {3, 4}) =>
        /\ Executed("Ret")
        /\ ticks = 3 => pc = U32(12)
        /\ ticks = 4 => (pc = U32(4) /\ StackPointer = scn.p.sp)

\* The bytes of data space that update_clock rewrites on every tick.
ClockBytes == CLOCK_LO_ADDR..(CLOCK_HI_ADDR + 1)

\* The skip instruction at address 0 of a cpse or sbrs program has just
\* executed.
Skipping ==
    /\ scn.name \in {"cpse", "sbrs"}
    /\ (Executed("Cpse") \/ Executed("Sbrs"))
    /\ pre.pc = U32(0)

\* The condition of the skip instruction of the program.
SkipCondition ==
    IF scn.name = "cpse" THEN scn.p.a = scn.p.b
    ELSE (scn.p.a \div (2 ^ scn.p.b)) % 2 = 1

\* C6: cpse with equal operands, or sbrs with the tested bit set, leaves the
\* program counter at fetch address + 2 + the size of the following
\* instruction, which is never executed; with the condition false the
\* program counter is fetch address + 2; the skip instruction changes no
\* register, no flag and no data byte (the clock bytes belong to the tick).
C6_SkipSemantics ==
    /\ Skipping =>
        /\ pc = U32(2 + IF SkipCondition THEN scn.p.next ELSE 0)
        /\ registers = pre.registers
        /\ sreg = pre.sreg
        /\ \A addr \in DOMAIN memory \ ClockBytes :
               memory[addr] = pre.memory[addr]
    /\ (scn.name \in {"cpse", "sbrs"} /\ SkipCondition) =>
        /\ registers[18] = 0
        /\ memory[96] = 0

C6_SkippedTwoWords ==
    /\ Skipping
    /\ SkipCondition
    /\ scn.p.next = 4
    /\ pc = U32(6)

\* C7: sbis A,b skips the following instruction exactly when bit b of the
\* data byte at 0x20 + A is set and leaves that byte unchanged.
C7_SbisSkipsOnBit ==
    (scn.name = "sbis" /\ Executed("Sbis") /\ pre.pc = U32(0)) =>
        /\ pc = U32(2 + IF (scn.p.m \div (2 ^ scn.p.b)) % 2 = 1
                        THEN scn.p.next ELSE 0)
        /\ memory[SRAM_IO_OFFSET + scn.p.a] = scn.p.m

\* The first instruction of a pointer program has just executed.
PointerAccess(op) ==
    /\ scn.name \in {"ptr", "disp"}
    /\ Executed(op)
    /\ pre.pc = U32(0)

\* The value of the pointer pair of the program.
Pointer == registers[scn.p.d + 1] * 256 + registers[scn.p.d]

\* The adjustment the addressing variant of the program asks for.
Adjustment ==
    CASE scn.p.mode = "Postincrement" -> 2
      [] scn.p.mode = "Predecrement" -> -2
      [] OTHER -> 0

\* The displacement operand of the std or ldd that executed.
Displacement ==
    IF outcome.inst.op = "Ldd" THEN outcome.inst.z ELSE outcome.inst.y

\* The register of the program is one of the pair's two registers.
InPair == scn.p.r \in {scn.p.d, scn.p.d + 1}

Signed12(k) == IF k >= 2048 THEN k - 4096 ELSE k

\* Every rjmp encoding decodes to the offset 2 * s.
RjmpDecodes ==
    \A k \in 0..4095 :
        try_read16(enc_k16(OP_RJMP, k)) = Inst("Rjmp", 2 * Signed12(k), 0, 0, "")

\* The rjmp of an rjmp program has just executed.
Jumped ==
    /\ scn.name = "rjmp"
    /\ Executed("Rjmp")
    /\ pre.pc = U32(scn.p.at)

\* The address a + 2 + 2 * s of the program.
RjmpTarget == scn.p.at + 2 + 2 * Signed12(scn.p.k)

\* C9 as stated: every rjmp field k decodes to the offset 2 * s, and the
\* rjmp fetched at a leaves the program counter equal to a + 2 + 2 * s.
C9_RjmpOffset ==
    /\ (scn.name = "rjmp" /\ scn.p.k = 0 /\ scn.p.at = 0 /\ ticks = 0)
           => RjmpDecodes
    /\ Jumped => (RjmpTarget >= 0 /\ pc = U32(RjmpTarget))

\* C9, amended: every rjmp field k decodes to the offset 2 * s, and the
\* rjmp fetched at a leaves the program counter equal to
\* (a + 2 + 2 * s) mod 2^32.
C9_RjmpOffsetMod ==
    /\ (scn.name = "rjmp" /\ scn.p.k = 0 /\ scn.p.at = 0 /\ ticks = 0)
           => RjmpDecodes
    /\ Jumped =>
        pc = IF RjmpTarget >= 0 THEN <<0, RjmpTarget>>
             ELSE <<65535, 65536 + RjmpTarget>>

C9_JumpedBackward ==
    /\ Jumped
    /\ scn.p.at = 4
    /\ scn.p.k = 4093
    /\ pc = U32(0)

\* The little-endian word at offset off of program space.
ProgramWord(c, off) == c.program_space[off + 1] * 256 + c.program_space[off]

\* No 16-bit matcher takes the word at the program counter of c, and no
\* 32-bit matcher takes it together with the word after it, if there is one.
UnknownAt(c) ==
    /\ c.pc[1] = 0
    /\ c.pc[2] + 1 \in DOMAIN c.program_space
    /\ ~IsSome(try_read16(ProgramWord(c, c.pc[2])))
    /\ c.pc[2] + 3 \in DOMAIN c.program_space =>
         ~IsSome(try_read32(<<ProgramWord(c, c.pc[2]),
                              ProgramWord(c, c.pc[2] + 2)>>))

\* C10: decoding at a word that no matcher takes yields
\* UnknownInstruction((first word << 16) | second word), and the decoder
\* does not panic, also when the stream ends after the first two bytes.
C10_UnknownRejected ==
    ticks > 0 =>
        /\ DecodedAt(pre).tag # "Panic"
        /\ UnknownAt(pre) =>
            /\ outcome.tag = "Err"
            /\ pre.pc[2] + 3 \in DOMAIN pre.program_space
            /\ outcome.err = UnknownInstruction(
                   <<ProgramWord(pre, pre.pc[2]), ProgramWord(pre, pre.pc[2] + 2)>>)

\* The last tick failed with an error of the given kind.
Failed(kind) == outcome.tag = "Err" /\ outcome.err.kind = kind

\* C11: when tick fails with UnknownInstruction the program counter, every
\* register (the stack pointer among them), SREG and every byte of data
\* space are as they were before the tick.
C11_UnknownLeavesState ==
    Failed("UnknownInstruction") =>
        /\ pc = pre.pc
        /\ registers = pre.registers
        /\ sreg = pre.sreg
        /\ memory = pre.memory

C11_FailedAfterProgress ==
    /\ scn.name = "late"
    /\ Failed("UnknownInstruction")
    /\ outcome.err = UnknownInstruction(<<\hFFFF, \hFFFF>>)
    /\ registers[16] = 5
    /\ memory[CLOCK_LO_ADDR] = 1
    /\ pc = U32(2)

\* The core is as the given call of Core::tick left it.
CoreIs(r) ==
    /\ pc = r.c.pc /\ registers = r.c.registers /\ sreg = r.c.sreg
    /\ memory = r.c.memory /\ program_space = r.c.program_space

\* C12: when the core tick of Mcu::tick succeeded, Mcu::tick returns Ok
\* whatever the addons returned, every attached addon was called, and the
\* core is as the core tick left it.
C12_AddonErrorsSwallowed ==
    (last_call = "Mcu::tick" /\ outcome.tag = "Ok") =>
        /\ mcu_outcome.tag = "Ok"
        /\ Len(notified) = Len(addons)
        /\ CoreIs(tick(pre))

C12_FailingAddonIgnored ==
    /\ last_call = "Mcu::tick" /\ outcome.tag = "Ok" /\ mcu_outcome.tag = "Ok"
    /\ addons = <<"failing", "listener">>
    /\ notified[1].ret = "Err" /\ notified[2].ret = "Ok"
    /\ pc # pre.pc

\* C13: after a successful core tick every attached addon was called
\* exactly once, in the order of attachment, with the executed instruction
\* and its address, and saw the core as the tick left it; after a failed
\* core tick no addon was called and Mcu::tick returned the core's error.
C13_AddonsNotifiedInOrder ==
    (last_call = "Mcu::tick") =>
        IF outcome.tag = "Ok"
        THEN /\ Len(notified) = Len(addons)
             /\ \A i \in 1..Len(addons) :
                    /\ notified[i].addon = i
                    /\ notified[i].kind = addons[i]
                    /\ notified[i].inst = outcome.inst
                    /\ notified[i].pc = outcome.pc
                    /\ notified[i].seen = Core
                    /\ notified[i].seen = tick(pre).c
        ELSE /\ notified = <<>>
             /\ mcu_outcome.tag = outcome.tag
             /\ mcu_outcome.err = outcome.err

C13_TwoAddonsAfterCall ==
    /\ last_call = "Mcu::tick" /\ scn.name = "callret" /\ outcome.tag = "Ok"
    /\ outcome.inst.op = "Call"
    /\ addons = <<"listener", "failing">>
    /\ notified[1].addon = 1 /\ notified[2].addon = 2
    /\ notified[2].seen.pc = pc /\ pc # pre.pc

C13_NoAddonAfterFailure ==
    /\ last_call = "Mcu::tick" /\ outcome.tag = "Err" /\ Len(addons) = 2
    /\ notified = <<>> /\ mcu_outcome.tag = "Err"

\* C14: a tick whose program counter is at the last instruction of program
\* space (the look-ahead's bytes are missing), at its end or beyond returns
\* an Err value; it does not panic.
C14_FetchBoundsChecked ==
    (ticks > 0 /\ (pre.pc[1] # 0 \/ pre.pc[2] + 3 \notin DOMAIN pre.program_space)) =>
        outcome.tag = "Err"

\* The stack-pointer guard of the push or pop at the program counter of c
\* fails: push finds the stack pointer at 0, pop brings it to 0.
GuardFails(c) ==
    \/ DecodedAt(c).inst.op = "Push" /\ c.registers[SP_LO_NUM] = 0
    \/ DecodedAt(c).inst.op = "Pop" /\ (c.registers[SP_LO_NUM] + 1) % 256 = 0

\* C15: a push or pop whose stack-pointer guard fails makes tick return
\* Err(StackOverflow); it does not panic, and the registers (the stack
\* pointer among them) and data memory outside the clock are unchanged.
C15_StackOverflowReturned ==
    (ticks > 0 /\ GuardFails(pre)) =>
        /\ outcome.tag = "Err"
        /\ outcome.err = StackOverflow
        /\ registers = pre.registers
        /\ \A addr \in DOMAIN memory \ ClockBytes : memory[addr] = pre.memory[addr]

\* C16: in every reachable state, the fresh one included, the Sign flag is
\* set exactly when the Negative flag is clear.
C16_SignComplementsNegative == Flag(S_FLAG) <=> ~Flag(NEGATIVE_FLAG)

\* C17: no step changes a byte of program space, whatever instruction the
\* tick executes and whether it succeeds or fails.
C17_ProgramSpaceReadOnly == [][program_space' = program_space]_vars

C17_StoredBesideProgram ==
    /\ scn.name = "flash" /\ Executed("Sts")
    /\ pre.registers[16] = program_space[0]
    /\ memory[scn.p.k] = program_space[0] /\ memory[scn.p.k] # 0
    /\ registers[30] = 1
    /\ program_space = LoadWords(scn.words, FlashSize)

\* The first word of a jmp/call encoding 1001 010k kkkk 11fk.
IsK32(w) == w \div 512 = \b1001010 /\ (w \div 4) % 4 = 3

\* K of a jmp/call encoding: the five k bits of the first group on top, then
\* the k bit that ends the first word, then the second word.
WordAddress(w1, w2) == ((w1 \div 16) % 32) * 131072 + (w1 % 2) * 65536 + w2

\* C18: a jmp/call encoding decodes to Jmp (f = 0) or Call (f = 1) with
\* target 2 * K, K being the 22-bit word address of the encoding.
C18_AbsoluteTarget ==
    (/\ ticks > 0 /\ pre.pc[1] = 0
     /\ pre.pc[2] + 3 \in DOMAIN pre.program_space
     /\ IsK32(ProgramWord(pre, pre.pc[2]))) =>
        /\ DecodedAt(pre).tag = "Ok"
        /\ DecodedAt(pre).inst.op =
               (IF (ProgramWord(pre, pre.pc[2]) \div 2) % 2 = 0 THEN "Jmp" ELSE "Call")
        /\ DecodedAt(pre).inst.x =
               2 * WordAddress(ProgramWord(pre, pre.pc[2]),
                               ProgramWord(pre, pre.pc[2] + 2))

\* A word of the form 10q0 qqfr rrrr pqqq.
IsLddStd(w) == (w \div 16384) = 2 /\ (w \div 4096) % 2 = 0

\* The q bits of such a word in order: bit 13, bits 11..10, bits 2..0.
QBits(w) == ((w \div 8192) % 2) * 32 + ((w \div 1024) % 4) * 8 + (w % 8)

\* What the word stands for: register r, pointer Y for p = 1 and Z for
\* p = 0, load for f = 0 and store for f = 1, displacement q; with q = 0 the
\* Ld/St Normal form.
LddStdOf(w) ==
    LET reg == (w \div 16) % 32
        ptr == IF (w \div 8) % 2 = 1 THEN 28 ELSE 30
        store == (w \div 512) % 2 = 1
    IN  IF QBits(w) = 0
        THEN IF store THEN Inst("St", ptr, reg, 0, "Normal")
             ELSE Inst("Ld", reg, ptr, 0, "Normal")
        ELSE IF store THEN Inst("Std", ptr, QBits(w), reg, "")
             ELSE Inst("Ldd", reg, ptr, QBits(w), "")

\* C19: an ldd/std encoding decodes to its register, pointer, direction and
\* the 6-bit displacement formed by the q bits in order; with q = 0 it
\* decodes to the Ld/St Normal form.
C19_DisplacementDecoded ==
    (/\ ticks > 0 /\ pre.pc[1] = 0
     /\ pre.pc[2] + 1 \in DOMAIN pre.program_space
     /\ IsLddStd(ProgramWord(pre, pre.pc[2]))) =>
        /\ DecodedAt(pre).tag = "Ok"
        /\ DecodedAt(pre).inst = LddStdOf(ProgramWord(pre, pre.pc[2]))

\* The load or store the last tick fetched, if it fetched one.
Accessing(c) ==
    IF fetch(c).tag = "Ok"
          /\ fetch(c).val.op \in {"Ld", "St", "Ldd", "Std", "Lds", "Sts"}
    THEN fetch(c).val ELSE None

\* The pointer pair of a load or store through a pointer.
PointerOf(i) == IF i.op \in {"St", "Std"} THEN i.x ELSE i.y

\* The address a load or store names: the pointer's value, the pointer's
\* value plus the displacement, or the address operand.
NamedAddress(c, i) ==
    CASE i.op \in {"Ld", "St"} ->
            c.registers[PointerOf(i) + 1] * 256 + c.registers[PointerOf(i)]
      [] i.op = "Std" -> c.registers[i.x + 1] * 256 + c.registers[i.x] + i.y
      [] i.op = "Ldd" -> c.registers[i.y + 1] * 256 + c.registers[i.y] + i.z
      [] OTHER -> i.y

\* The last tick returned a segmentation fault for the given address and
\* left the destination register and the pointer pair as they were.
FaultedAt(i, addr) ==
    /\ outcome.tag = "Err"
    /\ outcome.err = SegmentationFault(addr)
    /\ i.op \in {"Ld", "Ldd", "Lds"} => registers[i.x] = pre.registers[i.x]
    /\ i.op \in {"Ld", "St", "Ldd", "Std"} =>
          /\ registers[PointerOf(i)] = pre.registers[PointerOf(i)]
          /\ registers[PointerOf(i) + 1] = pre.registers[PointerOf(i) + 1]

RegisterImage == \A n \in 0..31 : memory[n] = registers[n]

\* C21: the register file image occupies data space from offset 0: a step
\* from a state where data byte n equals Rn for every n in 0..31 leads to
\* a state where it does (a write to Rn shows at address n and a store to
\* address n shows in Rn).
C21_RegistersInDataSpace == [][RegisterImage => RegisterImage']_vars

\* The 16-bit stack pointer of a core.
StackPointerOf(c) == c.registers[SP_HI_NUM] * 256 + c.registers[SP_LO_NUM]

\* C22: push Rr with the 16-bit stack pointer s > 0 inside data space
\* stores Rr at data address s and leaves the stack pointer pair at s - 1,
\* borrowing into the high byte when the low byte is 0.
C22_PushUsesWholeStackPointer ==
    (/\ ticks > 0 /\ fetch(pre).tag = "Ok" /\ fetch(pre).val.op = "Push"
     /\ StackPointerOf(pre) > 0 /\ StackPointerOf(pre) \in DOMAIN pre.memory) =>
        /\ outcome.tag = "Ok"
        /\ memory[StackPointerOf(pre)] = pre.registers[fetch(pre).val.x]
        /\ StackPointer = StackPointerOf(pre) - 1

\* The bitwise result of and, or, eor on two bytes.
LogicResult(op, a, b) ==
    CASE op = "And" -> BitAnd(a, b)
      [] op = "Or" -> BitOr(a, b)
      [] op = "Eor" -> BitXor(a, b)

\* The flags among mask are as they were before the last tick.
FlagsKept(mask) == BitAnd(sreg, mask) = BitAnd(pre.sreg, mask)

\* C23: after and, or, eor Rd,Rr, Rd holds the bitwise result, Zero is set
\* iff it is 0, Negative iff its bit 7 is set, and clears Overflow, and the
\* Carry, Half-carry, Sign, Transfer and Interrupt flags are unchanged.
C23_LogicFlags ==
    (outcome.tag = "Ok" /\ outcome.inst.op \in {"And", "Or", "Eor"}) =>
        /\ registers[outcome.inst.x] =
               LogicResult(outcome.inst.op, pre.registers[outcome.inst.x],
                           pre.registers[outcome.inst.y])
        /\ Flag(ZERO_FLAG) <=> (registers[outcome.inst.x] = 0)
        /\ Flag(NEGATIVE_FLAG) <=> (registers[outcome.inst.x] >= 128)
        /\ outcome.inst.op = "And" => ~Flag(OVERFLOW_FLAG)
        /\ FlagsKept(CARRY_FLAG + HALF_CARRY_FLAG + S_FLAG + TRANSFER_FLAG
                     + INTERRUPT_FLAG)

\* C24: ori Rd,K leaves Rd the bitwise OR of its previous value and K, and
\* andi Rd,K the bitwise AND.
C24_OriAndi ==
    /\ Executed("Ori") =>
          registers[outcome.inst.x] = BitOr(pre.registers[outcome.inst.x], outcome.inst.y)
    /\ Executed("Andi") =>
          registers[outcome.inst.x] = BitAnd(pre.registers[outcome.inst.x], outcome.inst.y)

\* C25: sub Rd,Rr with operand values a and b completes without fault,
\* leaves Rd = (a - b) mod 256 and sets Carry iff b > a.
C25_SubWraps ==
    (ticks > 0 /\ fetch(pre).tag = "Ok" /\ fetch(pre).val.op = "Sub") =>
        /\ outcome.tag = "Ok"
        /\ registers[fetch(pre).val.x] =
              (pre.registers[fetch(pre).val.x] - pre.registers[fetch(pre).val.y]) % 256
        /\ Flag(CARRY_FLAG) <=>
              (pre.registers[fetch(pre).val.y] > pre.registers[fetch(pre).val.x])

\* The last tick executed a conditional branch and took it.
BranchTaken == pc = U32Add(pre.pc, 2 + outcome.inst.x)

\* C26: cp Rd,Rr completes and leaves the registers unchanged; a breq that
\* follows it is taken iff Rd = Rr, a brcs iff Rd < Rr as unsigned values.
C26_CompareThenBranch ==
    /\ (ticks > 0 /\ fetch(pre).tag = "Ok" /\ fetch(pre).val.op = "Cp") =>
          outcome.tag = "Ok" /\ registers = pre.registers
    /\ (scn.name = "cp" /\ ticks = 2) =>
          /\ Executed("Breq") => (BranchTaken <=> scn.p.a = scn.p.b)
          /\ Executed("Brcs") => (BranchTaken <=> scn.p.a < scn.p.b)
          /\ outcome.tag = "Ok"

\* The flags were updated as cp updates them for the operand values a, b.
FlagsAsCp(a, b) ==
    IsOk(update_sreg_cp(pre, a, b)) => sreg = update_sreg_cp(pre, a, b).c.sreg

\* C27: cpi Rd,K updates the flags as cp would for the values of Rd and K
\* (Zero is set iff Rd = K, so that a following breq or brne reflects the
\* comparison) and leaves Rd unchanged.
C27_CpiComparesLikeCp ==
    /\ Executed("Cpi") =>
          /\ Flag(ZERO_FLAG) <=> (pre.registers[outcome.inst.x] = outcome.inst.y)
          /\ FlagsAsCp(pre.registers[outcome.inst.x], outcome.inst.y)
          /\ registers = pre.registers
    /\ (scn.name = "cpi" /\ ticks = 2) =>
          /\ Executed("Breq") => (BranchTaken <=> scn.p.a = scn.p.k)
          /\ Executed("Brne") => (BranchTaken <=> scn.p.a # scn.p.k)

\* The conditional branches: the flag each one tests and whether it is
\* taken on the flag set.
BranchOnSet ==
    [Breq |-> ZERO_FLAG, Brcs |-> CARRY_FLAG, Brmi |-> NEGATIVE_FLAG,
     Brvs |-> OVERFLOW_FLAG, Brlt |-> S_FLAG, Brhs |-> HALF_CARRY_FLAG,
     Brts |-> TRANSFER_FLAG, Brie |-> INTERRUPT_FLAG]
BranchOnClear ==
    [Brne |-> ZERO_FLAG, Brcc |-> CARRY_FLAG, Brpl |-> NEGATIVE_FLAG,
     Brvc |-> OVERFLOW_FLAG, Brge |-> S_FLAG, Brhc |-> HALF_CARRY_FLAG,
     Brtc |-> TRANSFER_FLAG, Brid |-> INTERRUPT_FLAG]

\* The flag of the given branch has the branch's polarity in core c.
Polarity(c, op) ==
    IF op \in DOMAIN BranchOnSet
    THEN BitAnd(c.sreg, BranchOnSet[op]) = BranchOnSet[op]
    ELSE BitAnd(c.sreg, BranchOnClear[op]) = 0

\* The fetch of core c yields a conditional branch.
BranchFetched(c) ==
    /\ fetch(c).tag = "Ok"
    /\ fetch(c).val.op \in DOMAIN BranchOnSet \cup DOMAIN BranchOnClear

\* C28 as stated: a conditional branch is taken iff its flag has its
\* polarity; taken, PC = fetch address + 2 + k, otherwise PC = fetch
\* address + 2; no register or flag changes.
C28_BranchSemantics ==
    (ticks > 0 /\ BranchFetched(pre)) =>
        /\ outcome.tag = "Ok"
        /\ pc = <<0, pre.pc[2] + 2
                    + (IF Polarity(pre, fetch(pre).val.op) THEN fetch(pre).val.x ELSE 0)>>
        /\ registers = pre.registers /\ sreg = pre.sreg

\* C28, amended: the same with the sum taken modulo 2^32.
C28_BranchSemanticsMod ==
    (ticks > 0 /\ BranchFetched(pre)) =>
        /\ outcome.tag = "Ok"
        /\ pc = U32Add(pre.pc, 2
                    + (IF Polarity(pre, fetch(pre).val.op) THEN fetch(pre).val.x ELSE 0))
        /\ registers = pre.registers /\ sreg = pre.sreg

C28_TakenBackward ==
    /\ scn.name = "br" /\ Executed("Brlt") /\ outcome.inst.x = -4
    /\ Flag(S_FLAG) /\ sreg = S_FLAG
    /\ pre.pc = U32(4) /\ pc = U32(2)

\* Instructions that operate only on registers, flags or the program
\* counter.
RegisterOnly ==
    {"Nop", "Mov", "Movw", "Ldi", "Add", "Adc", "Subi", "And", "Inc", "Dec",
     "Com", "Neg", "Swap", "Cp", "Rjmp", "Jmp", "Sei", "Cli"}
        \cup DOMAIN BranchOnSet \cup DOMAIN BranchOnClear

\* C29: a tick that executed an instruction operating only on registers,
\* flags or the program counter leaves every byte of data space unchanged.
C29_DataSpaceUntouched ==
    (outcome.tag = "Ok" /\ outcome.inst.op \in RegisterOnly) =>
        memory = pre.memory

SkipInstructions == {"Cpse", "Sbrs", "Sbis"}

\* Core c with every byte of program space behind the instruction at its
\* program counter replaced by the bytes of nop.
FollowedByNops(c) ==
    [c EXCEPT !.program_space =
        [a \in DOMAIN c.program_space |->
            IF a >= DecodedAt(c).rest THEN 0 ELSE c.program_space[a]]]

\* C30: for a current instruction that decodes and is neither a skip
\* instruction nor a read of program space, the result of tick and the
\* resulting PC, registers, flags and data memory are the same as for the
\* program in which only nops follow that instruction.
C30_LookAheadOnlySizes ==
    (/\ ticks > 0 /\ last_call = "Core::tick"
     /\ DecodedAt(pre).tag = "Ok"
     /\ DecodedAt(pre).inst.op \notin SkipInstructions \cup {"Lpm"}) =>
        /\ outcome = tick(FollowedByNops(pre)).val
        /\ pc = tick(FollowedByNops(pre)).c.pc
        /\ registers = tick(FollowedByNops(pre)).c.registers
        /\ sreg = tick(FollowedByNops(pre)).c.sreg
        /\ memory = tick(FollowedByNops(pre)).c.memory

\* C31: sts k,r16 with r16 = v and then, in the next tick, lds r17,k leaves
\* r17 = v, for every address k inside data space.
C31_DirectRoundTrip ==
    (scn.name = "direct" /\ ticks = 2) =>
        /\ Executed("Lds") /\ outcome.inst.y = scn.p.k
        /\ registers[17] = scn.p.a

\* C32: with x in Rb:Ra and y in Rd:Rc, add Ra,Rc followed by adc Rb,Rd
\* leaves Rb:Ra = (x + y) mod 65536 and Carry set iff x + y > 0xFFFF.
C32_WideAddition ==
    (scn.name = "add16" /\ ticks = 2) =>
        /\ Executed("Adc")
        /\ registers[scn.p.r] * 256 + registers[scn.p.d] = (scn.p.a + scn.p.b) % 65536
        /\ Flag(CARRY_FLAG) <=> scn.p.a + scn.p.b > 65535

C32_CarriedTwice ==
    /\ scn.name = "add16" /\ ticks = 2 /\ Executed("Adc")
    /\ (scn.p.a % 256) + (scn.p.b % 256) > 255
    /\ (scn.p.a \div 256) + (scn.p.b \div 256) = 255
    /\ Flag(CARRY_FLAG)
    /\ registers[scn.p.r] = 0

\* Executions of subi in the countdown from n.
Countdown(n) == IF n = 0 THEN 256 ELSE n

\* The loop has been left: the program counter is behind brne, r16 is 0,
\* and subi and brne have each executed Countdown(n) times after the ldi.
LoopLeft ==
    /\ pc = LoopExit
    /\ registers[16] = 0
    /\ ticks = 1 + 2 * Countdown(scn.p.a)

\* C33: repeated ticks of ldi r16,n ; L: subi r16,1 ; brne L eventually
\* leave the loop with PC at the instruction after brne and r16 = 0, after
\* exactly n executions of subi for n in 1..255 and 256 for n = 0.
C33_CountdownTerminates == <>LoopLeft

C33_LongestCountdown ==
    /\ LoopLeft /\ scn.p.a = 0 /\ ticks = MaxLoopTicks
    /\ Executed("Brne") /\ pre.pc = U32(4)

ImmediateForms == {"Subi", "Sbci", "Andi", "Ori", "Cpi", "Ldi"}

\* The single-register operands of instruction i.
SingleRegisters(i) ==
    CASE i.op \in {"Inc", "Dec", "Com", "Neg", "Push", "Pop", "Swap", "In",
                   "Sbrs", "Lpm", "Lds", "Sts", "Ld", "Ldd"}
                \cup ImmediateForms -> {i.x}
      [] i.op \in {"Add", "Adc", "Sub", "Sbc", "Mul", "And", "Or", "Eor",
                   "Cpse", "Cp", "Cpc", "Mov"} -> {i.x, i.y}
      [] i.op \in {"Out", "St"} -> {i.y}
      [] i.op = "Std" -> {i.z}
      [] OTHER -> {}

\* The register-pair operands of instruction i.
PairRegisters(i) ==
    CASE i.op = "Movw" -> {i.x, i.y}
      [] i.op \in {"Adiw", "Sbiw", "St", "Std"} -> {i.x}
      [] i.op \in {"Ld", "Ldd", "Lpm"} -> {i.y}
      [] OTHER -> {}

OperandsValid(i) ==
    /\ SingleRegisters(i) \subseteq 0..31
    /\ i.op \in ImmediateForms => i.x \in 16..31
    /\ \A r \in PairRegisters(i) : r \in 0..30 /\ r % 2 = 0

\* C34: every instruction the decoder yields has its single-register
\* operands in 0..31, the register of an immediate form in 16..31 and its
\* pair operands even and at most 30; the tick that executes it fails with
\* neither RegisterDoesNotExist nor RegisterPairOdd, and a fetched movw
\* passes the even-pair assertion.
C34_OperandsInRange ==
    (ticks > 0 /\ DecodedAt(pre).tag = "Ok") =>
        /\ OperandsValid(DecodedAt(pre).inst)
        /\ outcome.err.kind \notin {"RegisterDoesNotExist", "RegisterPairOdd"}
        /\ (DecodedAt(pre).inst.op = "Movw" /\ fetch(pre).tag = "Ok") =>
               outcome.tag = "Ok"

C34_HighestPairs ==
    /\ scn.name = "decode" /\ Executed("Movw")
    /\ outcome.inst.x = 30 /\ outcome.inst.y = 30

\* The word at the program counter of core c is an adiw/sbiw encoding,
\* 1001 011f KKdd KKKK.
IsAdiwSbiw(c) ==
    /\ c.pc[1] = 0 /\ c.pc[2] + 1 \in DOMAIN c.program_space
    /\ ProgramWord(c, c.pc[2]) \div 512 = \b1001011

\* What the encoding w stands for: Adiw (f = 0) or Sbiw (f = 1) on the pair
\* 24 + 2*dd with K = bits 7..6 followed by bits 3..0.
AdiwSbiwOf(w) ==
    Inst(IF (w \div 256) % 2 = 0 THEN "Adiw" ELSE "Sbiw",
         24 + 2 * ((w \div 16) % 4),
         16 * ((w \div 64) % 4) + (w % 16), 0, "")

\* C35: an adiw/sbiw encoding decodes to Adiw or Sbiw on the pair 24 + 2*dd
\* with the 6-bit immediate formed by bits 7..6 and bits 3..0 in order.
C35_AdiwImmediate ==
    (ticks > 0 /\ IsAdiwSbiw(pre)) =>
        /\ DecodedAt(pre).tag = "Ok"
        /\ DecodedAt(pre).inst = AdiwSbiwOf(ProgramWord(pre, pre.pc[2]))

====
